---- MODULE Spec2Model ----
(***************************************************************************)
(* Model of the request-admission and session-management layer of the      *)
(* ArkForge compliance scanner (src/src/index.ts): the rate limiter, the   *)
(* API key store, the HTTP session gateway, the path guard and the tool    *)
(* functions.                                                              *)
(*                                                                         *)
(* Time.  Date.now() is the variable clock, in milliseconds.  The limiter  *)
(* works in seconds (Date.now() / 1000, reset_at = now + 86400); the model *)
(* keeps those values multiplied by 1000 so that they stay integers: the   *)
(* comparison now >= reset_at is unchanged by the common factor.           *)
(***************************************************************************)
EXTENDS Integers, Sequences, FiniteSets, TLC

VARIABLES
    clock,        \* Date.now(), ms
    ticks,        \* how many times the clock has advanced
    clients,      \* RateLimiter.clients: ip -> [count, reset_at]
    lastCleanup,  \* RateLimiter.lastCleanup, ms
    disk,         \* data/rate_limits.json: [state, table]
    faults,       \* how many writes of the file have failed so far
    lastCheck,    \* history: the last RateLimiter.check call and its result
    admitted,     \* history: per ip, admissions counted from the first of the window
    startedFrom,  \* history: the file the running limiter was constructed from
    keyFiles,     \* api_keys.json and data/api_keys.json, in the order they are read
    keys,         \* ApiKeyManager.keys: key -> [email, plan, active]
    loadedAt,     \* ApiKeyManager.loadedAt, ms
    lastVerify,   \* history: the last ApiKeyManager.verify call and its result
    transports,   \* the live session table: session id -> transport
    tr,           \* every transport constructed so far, with its server instance
    sids,         \* how many session ids the transports have generated
    servers,      \* how many server instances createMcpServer has built
    lastReq,      \* history: the request the last step handled, and its outcome
    conns,        \* the /mcp handlers in flight on established sessions (at), and
                  \* history: the record table when the latest of them arrived (seen)
    lastTool      \* the tool call being answered: its date, what it touched, its result

limiterVars == <<clients, lastCleanup, disk, faults, lastCheck, admitted, startedFrom>>
keyVars == <<keyFiles, keys, loadedAt, lastVerify>>
gatewayVars == <<transports, tr, sids, servers, lastReq, conns>>
toolVars == <<lastTool>>

vars == <<clock, ticks, limiterVars, keyVars, gatewayVars, toolVars>>

(***************************************************************************)
(* Program constants                                                       *)
(***************************************************************************)
FREE_TIER_DAILY_LIMIT == 10
WINDOW_MS == 86400000
CLEANUP_GAP_MS == 3600000

(***************************************************************************)
(* Bounds of the model                                                     *)
(***************************************************************************)
MaxTicks == 3
MaxFaults == 1

IPs == {"ip1", "ip2"}

\* The clock advances by one of these amounts: 1 ms, exactly the sweep gap,
\* and the rest of a window, so that clock sums hit reset_at - 1 and reset_at.
TickSteps == {1, CLEANUP_GAP_MS, WINDOW_MS - CLEANUP_GAP_MS - 1}

(***************************************************************************)
(* Finite maps                                                             *)
(***************************************************************************)
EmptyMap == [i \in {} |-> 0]

MapSet(m, k, v) == [i \in (DOMAIN m) \cup {k} |-> IF i = k THEN v ELSE m[i]]

\* The map m restricted to the keys in ks.
MapRestrict(m, ks) == [i \in (DOMAIN m) \cap ks |-> m[i]]

(***************************************************************************)
(* RateLimiter                                                             *)
(***************************************************************************)
\* The outcomes of writeFileSync: the file holds the new text; the call
\* throws before the file is opened; the call throws after the file was
\* truncated, leaving a text that JSON.parse rejects.
WriteOutcomes == {"written", "failed", "torn"}

\* persist() without its try/catch: a failing write leaves persist().
persistRaises_NoCatch(how) == how # "written"

\* Whether an exception leaves persist() when its write ends as how says:
\* never, the catch swallows it.
persistRaises(how) == FALSE

\* persist(): writeFileSync of the whole table; a failing write is swallowed.
persist(d, table, how) ==
    CASE how = "written" -> [state |-> "ok", table |-> table]
      [] how = "failed" -> d
      [] how = "torn" -> [state |-> "corrupt", table |-> EmptyMap]

\* load() that reads nothing: every restart begins with an empty table.
load_StartsFresh(d, now) == EmptyMap

\* load(): only entries whose reset_at is still in the future are kept; a
\* missing or unparseable file leaves the table empty.
load(d, now) ==
    IF d.state = "ok"
    THEN MapRestrict(d.table, {i \in DOMAIN d.table : d.table[i].reset_at > now})
    ELSE EmptyMap

\* cleanup() that empties the table.
cleanup_Clears(cl, now) == EmptyMap

\* cleanup(): delete every entry with now >= reset_at.
cleanup(cl, now) == MapRestrict(cl, {i \in DOMAIN cl : ~(now >= cl[i].reset_at)})

\* The sweep test with >= : due at the hour, not after it.
sweepDue_AtTheHour(lc, nowMs) == nowMs - lc >= CLEANUP_GAP_MS

\* Whether check() runs the sweep first.
sweepDue(lc, nowMs) == nowMs - lc > CLEANUP_GAP_MS

\* check() with the quota test off by one: count > limit instead of >=.
check_QuotaOffByOne(cl, lc, nowMs, ip) ==
    LET swept == sweepDue(lc, nowMs)
        c1    == IF swept THEN cleanup(cl, nowMs) ELSE cl
        lc1   == IF swept THEN nowMs ELSE lc
        base  == [lastCleanup |-> lc1, swept |-> swept, sweptTable |-> c1]
    IN  IF ip \notin DOMAIN c1 \/ nowMs >= c1[ip].reset_at
        THEN base @@ [clients |-> MapSet(c1, ip, [count |-> 1, reset_at |-> nowMs + WINDOW_MS]),
                      wrote |-> TRUE, allowed |-> TRUE,
                      remaining |-> FREE_TIER_DAILY_LIMIT - 1]
        ELSE IF c1[ip].count > FREE_TIER_DAILY_LIMIT
        THEN base @@ [clients |-> c1, wrote |-> FALSE, allowed |-> FALSE, remaining |-> 0]
        ELSE base @@ [clients |-> MapSet(c1, ip, [count |-> c1[ip].count + 1,
                                                  reset_at |-> c1[ip].reset_at]),
                      wrote |-> TRUE, allowed |-> TRUE,
                      remaining |-> FREE_TIER_DAILY_LIMIT - (c1[ip].count + 1)]

\* check() with the window test strict: now > reset_at instead of >=.
check_StrictExpiry(cl, lc, nowMs, ip) ==
    LET swept == sweepDue(lc, nowMs)
        c1    == IF swept THEN cleanup(cl, nowMs) ELSE cl
        lc1   == IF swept THEN nowMs ELSE lc
        base  == [lastCleanup |-> lc1, swept |-> swept, sweptTable |-> c1]
    IN  IF ip \notin DOMAIN c1 \/ nowMs > c1[ip].reset_at
        THEN base @@ [clients |-> MapSet(c1, ip, [count |-> 1, reset_at |-> nowMs + WINDOW_MS]),
                      wrote |-> TRUE, allowed |-> TRUE,
                      remaining |-> FREE_TIER_DAILY_LIMIT - 1]
        ELSE IF c1[ip].count >= FREE_TIER_DAILY_LIMIT
        THEN base @@ [clients |-> c1, wrote |-> FALSE, allowed |-> FALSE, remaining |-> 0]
        ELSE base @@ [clients |-> MapSet(c1, ip, [count |-> c1[ip].count + 1,
                                                  reset_at |-> c1[ip].reset_at]),
                      wrote |-> TRUE, allowed |-> TRUE,
                      remaining |-> FREE_TIER_DAILY_LIMIT - (c1[ip].count + 1)]

\* check() counting the denied requests too: entry.count++ before the quota test.
check_IncrementsDenied(cl, lc, nowMs, ip) ==
    LET swept == sweepDue(lc, nowMs)
        c1    == IF swept THEN cleanup(cl, nowMs) ELSE cl
        lc1   == IF swept THEN nowMs ELSE lc
        base  == [lastCleanup |-> lc1, swept |-> swept, sweptTable |-> c1]
        bump  == MapSet(c1, ip, [count |-> c1[ip].count + 1, reset_at |-> c1[ip].reset_at])
    IN  IF ip \notin DOMAIN c1 \/ nowMs >= c1[ip].reset_at
        THEN base @@ [clients |-> MapSet(c1, ip, [count |-> 1, reset_at |-> nowMs + WINDOW_MS]),
                      wrote |-> TRUE, allowed |-> TRUE,
                      remaining |-> FREE_TIER_DAILY_LIMIT - 1]
        ELSE IF c1[ip].count >= FREE_TIER_DAILY_LIMIT
        THEN base @@ [clients |-> bump, wrote |-> TRUE, allowed |-> FALSE, remaining |-> 0]
        ELSE base @@ [clients |-> bump, wrote |-> TRUE, allowed |-> TRUE,
                      remaining |-> FREE_TIER_DAILY_LIMIT - (c1[ip].count + 1)]

\* check() with a sliding window: every admission sets reset_at anew.
check_SlidingWindow(cl, lc, nowMs, ip) ==
    LET swept == sweepDue(lc, nowMs)
        c1    == IF swept THEN cleanup(cl, nowMs) ELSE cl
        lc1   == IF swept THEN nowMs ELSE lc
        base  == [lastCleanup |-> lc1, swept |-> swept, sweptTable |-> c1]
    IN  IF ip \notin DOMAIN c1 \/ nowMs >= c1[ip].reset_at
        THEN base @@ [clients |-> MapSet(c1, ip, [count |-> 1, reset_at |-> nowMs + WINDOW_MS]),
                      wrote |-> TRUE, allowed |-> TRUE,
                      remaining |-> FREE_TIER_DAILY_LIMIT - 1]
        ELSE IF c1[ip].count >= FREE_TIER_DAILY_LIMIT
        THEN base @@ [clients |-> c1, wrote |-> FALSE, allowed |-> FALSE, remaining |-> 0]
        ELSE base @@ [clients |-> MapSet(c1, ip, [count |-> c1[ip].count + 1,
                                                  reset_at |-> nowMs + WINDOW_MS]),
                      wrote |-> TRUE, allowed |-> TRUE,
                      remaining |-> FREE_TIER_DAILY_LIMIT - (c1[ip].count + 1)]

\* check(ip) on the table cl with lastCleanup lc at time nowMs.  Returns the
\* new table, the new lastCleanup, the result, and the tables handed to
\* persist() in order (swept: by cleanup; wrote: by the admission).
check(cl, lc, nowMs, ip) ==
    LET swept == sweepDue(lc, nowMs)
        c1    == IF swept THEN cleanup(cl, nowMs) ELSE cl
        lc1   == IF swept THEN nowMs ELSE lc
        base  == [lastCleanup |-> lc1, swept |-> swept, sweptTable |-> c1]
    IN  IF ip \notin DOMAIN c1 \/ nowMs >= c1[ip].reset_at
        THEN base @@ [clients |-> MapSet(c1, ip, [count |-> 1, reset_at |-> nowMs + WINDOW_MS]),
                      wrote |-> TRUE, allowed |-> TRUE,
                      remaining |-> FREE_TIER_DAILY_LIMIT - 1]
        ELSE IF c1[ip].count >= FREE_TIER_DAILY_LIMIT
        THEN base @@ [clients |-> c1, wrote |-> FALSE, allowed |-> FALSE, remaining |-> 0]
        ELSE base @@ [clients |-> MapSet(c1, ip, [count |-> c1[ip].count + 1,
                                                  reset_at |-> c1[ip].reset_at]),
                      wrote |-> TRUE, allowed |-> TRUE,
                      remaining |-> FREE_TIER_DAILY_LIMIT - (c1[ip].count + 1)]

\* The file after check(): the cleanup's write, then the admission's write.
diskAfterCheck(d, r, ok1, ok2) ==
    LET d1 == IF r.swept THEN persist(d, r.sweptTable, ok1) ELSE d
    IN  IF r.wrote THEN persist(d1, r.clients, ok2) ELSE d1

\* How many of the writes of check() failed.
failedWrites(r, ok1, ok2) ==
    (IF r.swept /\ ok1 # "written" THEN 1 ELSE 0)
    + (IF r.wrote /\ ok2 # "written" THEN 1 ELSE 0)

(***************************************************************************)
(* History of admissions, kept apart from the limiter's own table: the     *)
(* window of an identity starts at its first admitted request and lasts    *)
(* WINDOW_MS; n counts the admissions in it, handed the tools/call          *)
(* messages of the admitted requests.                                      *)
(***************************************************************************)
NoWindow == [n |-> 0, resetAt |-> 0, handed |-> 0]

admit(a, nowMs, calls) ==
    IF a.n = 0 \/ nowMs >= a.resetAt
    THEN [n |-> 1, resetAt |-> nowMs + WINDOW_MS, handed |-> calls]
    ELSE [n |-> a.n + 1, resetAt |-> a.resetAt, handed |-> a.handed + calls]

NoCheck == [ip |-> "none", now |-> 0, allowed |-> FALSE, remaining |-> 0,
            hadRecord |-> FALSE, preCount |-> 0, preResetAt |-> 0,
            preN |-> 0, preWindowEnd |-> 0,
            swept |-> FALSE, wrote |-> FALSE, pre |-> EmptyMap, preCleanup |-> 0,
            sweptTable |-> EmptyMap, raised |-> FALSE, failed |-> 0]

(***************************************************************************)
(* ApiKeyManager                                                           *)
(*                                                                         *)
(* A key file is [state, list, dict]: state is "ok", "missing", "corrupt"  *)
(* (JSON.parse throws), "null" (the text is null: data.keys throws) or     *)
(* "badlist" (the value under "keys" is truthy and not iterable: for..of   *)
(* throws); list is the array under "keys"; dict holds the other           *)
(* top-level properties.  An entry is [key, obj, email,                    *)
(* plan, tier, active]: obj is FALSE for a value that is not an object     *)
(* (null in the list makes entry.key throw), "" stands for an absent or    *)
(* empty string, and active is "true", "false" or "absent".                *)
(***************************************************************************)
KEY_RELOAD_MS == 60000

\* { email: e.email || "", plan: e.plan || e.tier || "pro", active: e.active !== false }
keyRecord(e) ==
    [email  |-> e.email,
     plan   |-> IF e.plan # "" THEN e.plan ELSE IF e.tier # "" THEN e.tier ELSE "pro",
     active |-> e.active # "false"]

\* for (const entry of (data.keys || [])): entries in order; an entry that is
\* not an object throws and ends the reading of this file.
RECURSIVE mergeList(_, _, _)
mergeList(merged, list, i) ==
    IF i > Len(list) THEN [m |-> merged, threw |-> FALSE]
    ELSE IF ~list[i].obj THEN [m |-> merged, threw |-> TRUE]
    ELSE mergeList(IF list[i].key # "" THEN MapSet(merged, list[i].key, keyRecord(list[i]))
                   ELSE merged, list, i + 1)

\* for (const [apiKey, info] of Object.entries(data)): every property whose
\* value is an object; the order does not matter, the property names differ.
mergeDict(merged, dict) ==
    [k \in (DOMAIN merged) \cup {j \in DOMAIN dict : dict[j].obj} |->
        IF k \in DOMAIN dict /\ dict[k].obj THEN keyRecord(dict[k]) ELSE merged[k]]

\* The body of the try block for one file: [m, threw].  What was set in
\* merged before an exception stays set.
tryFile(merged, f) ==
    IF f.state # "ok" THEN [m |-> merged, threw |-> TRUE]
    ELSE LET l == mergeList(merged, f.list, 1)
         IN  IF l.threw THEN l ELSE [m |-> mergeDict(l.m, f.dict), threw |-> FALSE]

\* The loop body without its try/catch: the exception leaves reload().
mergeFile_NoCatch(acc, f) == IF acc.threw THEN acc ELSE tryFile(acc.m, f)

\* One turn of the loop over the files, on acc = [m, threw]: the catch
\* swallows whatever the body throws.
mergeFile(acc, f) ==
    IF acc.threw THEN acc ELSE [m |-> tryFile(acc.m, f).m, threw |-> FALSE]

\* reload(): both files into one map, API_KEYS_ROOT first; [m, threw].
reload(files) == mergeFile(mergeFile([m |-> EmptyMap, threw |-> FALSE], files[1]), files[2])

\* verify() whose reload adds to the loaded map instead of replacing it.
verify_MergesIntoOld(ks, la, files, nowMs, key) ==
    LET stale == nowMs - la > KEY_RELOAD_MS
        r     == reload(files)
        ks1   == IF stale
                 THEN [k \in (DOMAIN ks) \cup (DOMAIN r.m) |->
                          IF k \in DOMAIN r.m THEN r.m[k] ELSE ks[k]]
                 ELSE ks
        la1   == IF stale THEN nowMs ELSE la
        hit   == key \in DOMAIN ks1 /\ ks1[key].active
    IN  [keys |-> ks1, loadedAt |-> la1, reloaded |-> stale, threw |-> FALSE, valid |-> hit,
         email |-> IF hit THEN ks1[key].email ELSE "",
         plan  |-> IF hit THEN ks1[key].plan ELSE ""]

\* verify() that never reads the files again.
verify_NeverReloads(ks, la, files, nowMs, key) ==
    LET hit == key \in DOMAIN ks /\ ks[key].active
    IN  [keys |-> ks, loadedAt |-> la, reloaded |-> FALSE, threw |-> FALSE, valid |-> hit,
         email |-> IF hit THEN ks[key].email ELSE "",
         plan  |-> IF hit THEN ks[key].plan ELSE ""]

\* verify(key) at time nowMs: reloads when the last load is more than 60 s
\* old, then looks the key up.  Returns the new map and loadedAt and the
\* result (valid = FALSE is the null result; threw: an exception left it).
verify(ks, la, files, nowMs, key) ==
    LET stale == nowMs - la > KEY_RELOAD_MS
        r     == reload(files)
        threw == stale /\ r.threw
        ks1   == IF stale /\ ~r.threw THEN r.m ELSE ks
        la1   == IF stale /\ ~r.threw THEN nowMs ELSE la
        hit   == ~threw /\ key \in DOMAIN ks1 /\ ks1[key].active
    IN  [keys |-> ks1, loadedAt |-> la1, reloaded |-> stale, threw |-> threw, valid |-> hit,
         email |-> IF hit THEN ks1[key].email ELSE "",
         plan  |-> IF hit THEN ks1[key].plan ELSE ""]

NoEntry == [key |-> "", obj |-> TRUE, email |-> "", plan |-> "", tier |-> "", active |-> "absent"]

\* The key files of the deployment the gateway runs in: an active pro key
\* and a deactivated key in the list of the first file, a key of plan
\* "free" as a property of the second.
DeployedKeyFiles ==
    << [state |-> "ok",
        list  |-> << [NoEntry EXCEPT !.key = "kPro", !.email = "pro@x", !.plan = "pro"],
                     [NoEntry EXCEPT !.key = "kOff", !.email = "off@x", !.active = "false"] >>,
        dict  |-> EmptyMap],
       [state |-> "ok",
        list  |-> << >>,
        dict  |-> [k \in {"kFree"} |-> [NoEntry EXCEPT !.email = "free@x", !.plan = "free"]]] >>

NoVerify == [key |-> "none", now |-> 0, threw |-> FALSE, valid |-> FALSE, email |-> "",
             plan |-> "", reloaded |-> FALSE, loadedBefore |-> 0, knownBefore |-> FALSE,
             files |-> << >>]

\* The record of the call verify(key) at time nowMs with result v, made on
\* the map ks loaded at la; files are the files the call read, if it did.
verifyRecord(key, nowMs, v, ks, la, files) ==
    [key |-> key, now |-> nowMs, threw |-> v.threw, valid |-> v.valid, email |-> v.email,
     plan |-> v.plan, reloaded |-> v.reloaded, loadedBefore |-> la,
     knownBefore |-> key \in DOMAIN ks, files |-> IF v.reloaded THEN files ELSE << >>]

\* new ApiKeyManager(): reload() in the constructor.
InitKeys ==
    /\ keyFiles = DeployedKeyFiles
    /\ keys = reload(keyFiles).m
    /\ loadedAt = 0
    /\ lastVerify = NoVerify

(***************************************************************************)
(* Requests                                                                *)
(*                                                                         *)
(* A request is [method, url, sid, body, peer, xff, xApiKey, auth].  sid   *)
(* is the Mcp-Session-Id header (0: none).  body is [raw, isArray, elems]: *)
(* raw is "empty" (no body), "garbage" (JSON.parse throws) or "json"; the  *)
(* decoded value is the array elems, or its only element; an element is    *)
(* the method of an object, "nomethod" for an object without one, or       *)
(* "null".  xff is the X-Forwarded-For list (<< >>: no header), auth is    *)
(* [scheme, cred].                                                         *)
(***************************************************************************)
NoBody == [raw |-> "empty", isArray |-> FALSE, elems |-> << >>, key |-> ""]
Garbage == [raw |-> "garbage", isArray |-> FALSE, elems |-> << >>, key |-> ""]
One(e) == [raw |-> "json", isArray |-> FALSE, elems |-> <<e>>, key |-> ""]
Batch(es) == [raw |-> "json", isArray |-> TRUE, elems |-> es, key |-> ""]
\* The object {"key": k}: it has no method.
WithKey(k) == [raw |-> "json", isArray |-> FALSE, elems |-> <<"">>, key |-> k]

NoAuth == [scheme |-> "", cred |-> ""]

\* getClientIp(req): the first X-Forwarded-For value, else the peer address.
getClientIp(req) ==
    IF req.xff # << >> THEN req.xff[1]
    ELSE IF req.peer # "" THEN req.peer ELSE "unknown"

\* extractApiKey() that reads X-API-Key only.
extractApiKey_HeaderOnly(req) == req.xApiKey

\* extractApiKey(req): X-API-Key, else the Bearer token; "" is undefined.
extractApiKey(req) ==
    IF req.xApiKey # "" THEN req.xApiKey
    ELSE IF req.auth.scheme = "Bearer" THEN req.auth.cred ELSE ""

\* body && JSON.parse(body) succeeded.
decoded(b) == b.raw = "json"

\* The body read whatever the method.
readBody_AnyMethod(req) == req.body

\* if (req.method === "POST") body = await ...: the body of a request of
\* another method is never read and stays undefined.
readBody(req) == IF req.method = "POST" THEN req.body ELSE NoBody

\* if (parsedBody): null is falsy; objects and arrays are truthy.
truthy(b) == decoded(b) /\ (b.isArray \/ b.elems[1] # "null")

\* requests.find(r => r.method === "tools/call") on the elements from i on:
\* "found", "none", or "throws" when r.method is read of a null element
\* before a tools/call element is met.
RECURSIVE findToolsCall(_, _)
findToolsCall(elems, i) ==
    IF i > Len(elems) THEN "none"
    ELSE IF elems[i] = "null" THEN "throws"
    ELSE IF elems[i] = "tools/call" THEN "found"
    ELSE findToolsCall(elems, i + 1)

\* How many tools/call messages the body holds.
toolCalls(b) == Cardinality({i \in DOMAIN b.elems : b.elems[i] = "tools/call"})

\* Every request is taken for an /mcp request.
endpoint_EverythingIsMcp(req) == "mcp"

\* The branch of the request handler the method and the url select.
endpoint(req) ==
    IF req.method = "OPTIONS" THEN "options"
    ELSE IF req.url = "/.well-known/mcp/server-card.json" /\ req.method = "GET" THEN "card"
    ELSE IF req.url = "/health" /\ req.method = "GET" THEN "health"
    ELSE IF req.url = "/api/verify-key" /\ req.method = "POST" THEN "verify-key"
    ELSE IF req.url # "/mcp" THEN "notfound"
    ELSE "mcp"

\* mcpPath without the test parsed.method === "initialize": every decoded
\* object starts a session.
mcpPath_AnyMethodInitializes(req, tbl) ==
    IF req.sid # 0 /\ req.sid \in DOMAIN tbl THEN "route"
    ELSE IF req.method = "POST" /\ req.body.raw # "empty"
    THEN IF req.body.raw = "garbage" THEN "badjson"
         ELSE IF ~req.body.isArray /\ req.body.elems[1] = "null" THEN "badjson"
         ELSE IF ~req.body.isArray THEN "init"
         ELSE "nosession"
    ELSE "nosession"

\* The branch the /mcp handler takes for req with the session table tbl:
\* "route" (existing session), "init" (POST initialize), "badjson" (the
\* catch of the initialize block: JSON.parse or parsed.method threw), or
\* "nosession" (the final 400).
mcpPath(req, tbl) ==
    IF req.sid # 0 /\ req.sid \in DOMAIN tbl THEN "route"
    ELSE IF req.method = "POST" /\ req.body.raw # "empty"
    THEN IF req.body.raw = "garbage" THEN "badjson"
         ELSE IF ~req.body.isArray /\ req.body.elems[1] = "null" THEN "badjson"
         ELSE IF ~req.body.isArray /\ req.body.elems[1] = "initialize" THEN "init"
         ELSE "nosession"
    ELSE "nosession"

(***************************************************************************)
(* Sessions                                                                *)
(*                                                                         *)
(* tr[t] is the t-th transport constructed: pos is where the initialize    *)
(* handler that made it stands ("connecting": awaiting connect;            *)
(* "handling": awaiting transport.handleRequest; "handled": resumed, about *)
(* to store; "done"; "failed": an await threw), sid the mcp-session-id     *)
(* header of the initialize response (0: not set), server its McpServer,   *)
(* closed whether it has signalled closure: "open", "early" (closed before *)
(* its handler had stored it) or "late".                                   *)
(***************************************************************************)
MaxSessions == 2
MaxAdmSessions == 1
MaxGatewayTicks == 1
MaxInFlight == 2

\* One McpServer built once and handed to every session.
createMcpServer_Shared(n) == 1

\* createMcpServer(): a new McpServer; n instances exist already.
createMcpServer(n) == n + 1

\* sessionIdGenerator: randomUUID(), a value no transport had before.
sessionIdGenerator(n) == n + 1

MapRemove(m, k) == [i \in (DOMAIN m) \ {k} |-> m[i]]

NoReq == [req |-> [method |-> "", url |-> "", sid |-> 0, body |-> NoBody, peer |-> "",
                   xff |-> << >>, xApiKey |-> "", auth |-> NoAuth],
          path |-> "", resp |-> "", to |-> 0, handed |-> 0,
          checked |-> FALSE, pro |-> FALSE]

\* No handler in flight on the connection.
Idle == [pos |-> "idle", req |-> NoReq.req]

InitGateway ==
    /\ conns = [at |-> [c \in 1..MaxInFlight |-> Idle], seen |-> EmptyMap]
    /\ transports = EmptyMap
    /\ tr = << >>
    /\ sids = 0
    /\ servers = 0
    /\ lastReq = NoReq

(***************************************************************************)
(* Strings and paths.  A string is the sequence of its pieces: "/" and "." *)
(* are pieces of their own and a name is one or more pieces, so that       *)
(* "/etcx" = <<"/", "etc", "x">> begins with "/etc" = <<"/", "etc">> as    *)
(* the strings do.  No piece is the beginning of another piece used in a   *)
(* directory name, hence startsWith and === on the sequences decide as     *)
(* they do on the strings.                                                 *)
(***************************************************************************)
SEP == "/"
DOT == <<".">>
DOTDOT == <<".", ".">>

\* s.startsWith(prefix)
startsWith(s, prefix) ==
    /\ Len(prefix) <= Len(s)
    /\ SubSeq(s, 1, Len(prefix)) = prefix

\* s.endsWith(suffix)
endsWith(s, suffix) ==
    /\ Len(suffix) <= Len(s)
    /\ SubSeq(s, Len(s) - Len(suffix) + 1, Len(s)) = suffix

\* names.join("/")
RECURSIVE sepJoin(_)
sepJoin(names) ==
    IF names = << >> THEN << >>
    ELSE IF Len(names) = 1 THEN names[1]
    ELSE names[1] \o <<SEP>> \o sepJoin(Tail(names))

\* "/" + names.join("/"): the absolute path string of a list of names.
toAbs(names) == <<SEP>> \o sepJoin(names)

\* s.split("/"): the components between the separators, empty ones included.
RECURSIVE split(_)
split(s) ==
    IF \A i \in DOMAIN s : s[i] # SEP THEN <<s>>
    ELSE LET i == CHOOSE k \in DOMAIN s :
                      s[k] = SEP /\ \A j \in 1..(k - 1) : s[j] # SEP
         IN  <<SubSeq(s, 1, i - 1)>> \o split(SubSeq(s, i + 1, Len(s)))

\* path.isAbsolute
isAbsolute(s) == Len(s) > 0 /\ s[1] = SEP

\* node:path normalizeString over the components: "" and "." are dropped,
\* ".." removes the component before it (lexically), and is kept at the
\* front of a relative path.
RECURSIVE normalizeString(_, _, _)
normalizeString(comps, allowAboveRoot, acc) ==
    IF comps = << >> THEN acc
    ELSE LET c == Head(comps)
             rest == Tail(comps)
         IN  IF c = << >> \/ c = DOT THEN normalizeString(rest, allowAboveRoot, acc)
             ELSE IF c = DOTDOT
             THEN IF acc # << >> /\ acc[Len(acc)] # DOTDOT
                  THEN normalizeString(rest, allowAboveRoot, SubSeq(acc, 1, Len(acc) - 1))
                  ELSE IF allowAboveRoot
                  THEN normalizeString(rest, allowAboveRoot, Append(acc, DOTDOT))
                  ELSE normalizeString(rest, allowAboveRoot, acc)
             ELSE normalizeString(rest, allowAboveRoot, Append(acc, c))

\* process.cwd(), as a list of names.
CWD == <<<<"home">>, <<"ann">>>>

\* path.resolve(s): the names of the absolute path, "." and ".." resolved
\* lexically against the working directory.
resolve(s) ==
    IF isAbsolute(s) THEN normalizeString(split(s), FALSE, << >>)
    ELSE normalizeString(CWD \o split(s), FALSE, << >>)

\* path.normalize(s)
normalize(s) ==
    IF s = << >> THEN DOT
    ELSE LET names == normalizeString(split(s), ~isAbsolute(s), << >>)
             trailing == s[Len(s)] = SEP
         IN  IF names = << >>
             THEN IF isAbsolute(s) THEN <<SEP>>
                  ELSE IF trailing THEN DOT \o <<SEP>> ELSE DOT
             ELSE (IF isAbsolute(s) THEN <<SEP>> ELSE << >>)
                  \o sepJoin(names)
                  \o (IF trailing THEN <<SEP>> ELSE << >>)

\* path.join(a, b)
join(a, b) ==
    IF a = << >> THEN normalize(b)
    ELSE IF b = << >> THEN normalize(a)
    ELSE normalize(a \o <<SEP>> \o b)

\* The length of the longest common prefix of two lists of names.
RECURSIVE commonLen(_, _)
commonLen(a, b) ==
    IF a = << >> \/ b = << >> \/ Head(a) # Head(b) THEN 0
    ELSE 1 + commonLen(Tail(a), Tail(b))

\* path.relative(from, to)
relative(from, to) ==
    LET f == resolve(from)
        t == resolve(to)
        k == commonLen(f, t)
    IN  sepJoin([i \in 1..(Len(f) - k) |-> DOTDOT] \o SubSeq(t, k + 1, Len(t)))

\* path.extname(name): from the last "." on, unless the name begins there.
extname(name) ==
    LET dots == {i \in DOMAIN name : name[i] = "." /\ i > 1}
    IN  IF dots = {} THEN << >>
        ELSE LET last == CHOOSE i \in dots : \A j \in dots : j <= i
             IN  SubSeq(name, last, Len(name))

(***************************************************************************)
(* The file system the tools look at                                       *)
(***************************************************************************)
MAX_FILES == 5000
MAX_FILE_SIZE == 1000000

\* What the detection tables and the compliance checks find in a file's
\* text: the keys of AI_MODEL_PATTERNS, GDPR_CODE_PATTERNS and
\* GDPR_CONFIG_PATTERNS with a matching pattern, the number of template
\* placeholders, and whether an AI keyword or an AI-generated marker occurs;
\* multi holds the keys more than one pattern of which matches; denied
\* tells that the file may not be opened for reading (EACCES).
NoContent == [ai |-> {}, gdpr |-> {}, config |-> {}, multi |-> {}, placeholders |-> 0,
              aiKeyword |-> FALSE, aiMarker |-> FALSE, denied |-> FALSE]

Dir(entries) == [type |-> "dir", entries |-> entries, target |-> << >>,
                 size |-> 0, content |-> NoContent]
\* A directory the process may neither list nor search (EACCES).
Locked(entries) == [type |-> "locked", entries |-> entries, target |-> << >>,
                    size |-> 0, content |-> NoContent]
File(size, content) == [type |-> "file", entries |-> << >>, target |-> << >>,
                        size |-> size, content |-> content]
Link(target) == [type |-> "link", entries |-> << >>, target |-> target,
                 size |-> 0, content |-> NoContent]
\* A name readdirSync lists as a regular file and that is gone when it is
\* looked up next (deleted in between): every later call on it fails.
Ghost == [type |-> "ghost", entries |-> << >>, target |-> << >>,
          size |-> 0, content |-> NoContent]

README_MD == <<"README", ".", "md">>
APP_PY == <<"app", ".", "py">>
BIG_PY == <<"big", ".", "py">>
INDEX_JS == <<"index", ".", "js">>
REQUIREMENTS_TXT == <<"requirements", ".", "txt">>
PRIVACY_POLICY_MD == <<"PRIVACY_POLICY", ".", "md">>
PRIVACY_POLICY_LC_MD == <<"privacy-policy", ".", "md">>
SETUP_PY == <<"setup", ".", "py">>
HOOKS_PY == <<".", "hooks", ".", "py">>
ALIAS_PY == <<"alias", ".", "py">>
GHOST_PY == <<"ghost", ".", "py">>
SEALED_PY == <<"sealed", ".", "py">>
NODE_MODULES == <<"node_modules">>
PYCACHE == <<"__pycache__">>

\* The system directories of the denylist that hold nothing in this tree.
BareSystemDirs ==
    {<<<<"opt">>, <<"claude-ceo">>>>, <<<<"root">>>>, <<<<"proc">>>>, <<<<"sys">>>>,
     <<<<"dev">>>>, <<<<"run">>>>, <<<<"boot">>>>, <<<<"usr">>>>, <<<<"bin">>>>,
     <<<<"sbin">>>>, <<<<"lib">>>>, <<<<"snap">>>>, <<<<"mnt">>>>, <<<<"media">>>>}

\* Every path that exists, by its canonical list of names: directories with
\* their entries in listing order, files with size and content, links with
\* their target.
Nodes ==
    {<<p, Dir(<< >>)>> : p \in BareSystemDirs}
    \cup {
        <<<< >>,
          Dir(<<<<"etc">>, <<"etc", "x">>, <<"home">>, <<"opt">>, <<"root">>,
             <<"proc">>, <<"sys">>, <<"dev">>, <<"run">>, <<"boot">>,
             <<"usr">>, <<"bin">>, <<"sbin">>, <<"lib">>, <<"snap">>,
             <<"mnt">>, <<"media">>>>)>>,
        <<<<<<"opt">>>>,
          Dir(<<<<"claude-ceo">>>>)>>,
        <<<<<<"etc">>>>,
          Dir(<<<<"ssh">>, README_MD, APP_PY>>)>>,
        <<<<<<"etc">>, <<"ssh">>>>,
          Dir(<< >>)>>,
        <<<<<<"etc">>, README_MD>>,
          File(300, [NoContent EXCEPT !.aiKeyword = TRUE])>>,
        <<<<<<"etc">>, APP_PY>>,
          File(200, [NoContent EXCEPT !.ai = {"anthropic"}, !.gdpr = {"encryption_usage"},
             !.aiMarker = TRUE])>>,
        <<<<<<"etc", "x">>>>,
          Dir(<< >>)>>,
        <<<<<<"home">>>>,
          Dir(<<<<"ann">>>>)>>,
        <<<<<<"home">>, <<"ann">>>>,
          Dir(<<<<"proj">>, <<"odd">>, <<"solo">>, <<"lnk1">>, <<"lnk2">>, <<"lnk3">>,
             <<"lnk4">>, <<"frail">>, <<"pkg">>>>)>>,
        <<<<<<"home">>, <<"ann">>, <<"pkg">>>>,
          Dir(<<SETUP_PY>>)>>,
        <<<<<<"home">>, <<"ann">>, <<"pkg">>, SETUP_PY>>,
          File(80, [NoContent EXCEPT !.gdpr = {"pii_fields"}, !.config = {"database_orm"}])>>,
        <<<<<<"home">>, <<"ann">>, <<"frail">>>>,
          Dir(<<GHOST_PY, SEALED_PY, REQUIREMENTS_TXT, <<"vault">>, <<"sub">>>>)>>,
        <<<<<<"home">>, <<"ann">>, <<"frail">>, GHOST_PY>>,
          Ghost>>,
        <<<<<<"home">>, <<"ann">>, <<"frail">>, SEALED_PY>>,
          File(100, [NoContent EXCEPT !.ai = {"openai"}, !.gdpr = {"pii_fields"},
             !.denied = TRUE])>>,
        <<<<<<"home">>, <<"ann">>, <<"frail">>, REQUIREMENTS_TXT>>,
          File(50, [NoContent EXCEPT !.config = {"database_orm"}, !.denied = TRUE])>>,
        <<<<<<"home">>, <<"ann">>, <<"frail">>, <<"vault">>>>,
          Locked(<<APP_PY>>)>>,
        <<<<<<"home">>, <<"ann">>, <<"frail">>, <<"vault">>, APP_PY>>,
          File(100, [NoContent EXCEPT !.ai = {"openai"}])>>,
        <<<<<<"home">>, <<"ann">>, <<"frail">>, <<"sub">>>>,
          Dir(<<APP_PY, REQUIREMENTS_TXT>>)>>,
        <<<<<<"home">>, <<"ann">>, <<"frail">>, <<"sub">>, APP_PY>>,
          File(100, [NoContent EXCEPT !.ai = {"anthropic"}, !.gdpr = {"consent_mechanism"}])>>,
        <<<<<<"home">>, <<"ann">>, <<"frail">>, <<"sub">>, REQUIREMENTS_TXT>>,
          File(50, [NoContent EXCEPT !.config = {"cloud_storage"}])>>,
        <<<<<<"home">>, <<"ann">>, <<"solo">>>>,
          Dir(<<README_MD>>)>>,
        <<<<<<"home">>, <<"ann">>, <<"solo">>, README_MD>>,
          File(300, [NoContent EXCEPT !.aiKeyword = TRUE])>>,
        <<<<<<"home">>, <<"ann">>, <<"lnk1">>>>,
          Link(<<<<"etc">>>>)>>,
        <<<<<<"home">>, <<"ann">>, <<"lnk2">>>>,
          Link(<<<<"etc">>, <<"ssh">>>>)>>,
        <<<<<<"home">>, <<"ann">>, <<"lnk3">>>>,
          Link(<<<<"etc", "x">>>>)>>,
        <<<<<<"home">>, <<"ann">>, <<"lnk4">>>>,
          Link(<<<<"gone">>>>)>>,
        <<<<<<"home">>, <<"ann">>, <<"odd">>>>,
          Dir(<<README_MD, PRIVACY_POLICY_LC_MD>>)>>,
        <<<<<<"home">>, <<"ann">>, <<"odd">>, PRIVACY_POLICY_LC_MD>>,
          File(400, NoContent)>>,
        <<<<<<"home">>, <<"ann">>, <<"odd">>, README_MD>>,
          Dir(<< >>)>>,
        <<<<<<"home">>, <<"ann">>, <<"proj">>>>,
          Dir(<<<<".", "git">>, NODE_MODULES, README_MD, APP_PY, BIG_PY,
             REQUIREMENTS_TXT, <<"docs">>, <<"lnk1">>, HOOKS_PY, ALIAS_PY,
             <<"vault">>, <<"src">>>>)>>,
        <<<<<<"home">>, <<"ann">>, <<"proj">>, HOOKS_PY>>,
          File(100, NoContent)>>,
        <<<<<<"home">>, <<"ann">>, <<"proj">>, ALIAS_PY>>,
          Link(<<<<"home">>, <<"ann">>, <<"proj">>, APP_PY>>)>>,
        <<<<<<"home">>, <<"ann">>, <<"proj">>, <<"vault">>>>,
          Locked(<<INDEX_JS>>)>>,
        <<<<<<"home">>, <<"ann">>, <<"proj">>, <<"vault">>, INDEX_JS>>,
          File(100, NoContent)>>,
        <<<<<<"home">>, <<"ann">>, <<"proj">>, <<"src">>>>,
          Dir(<<INDEX_JS, SETUP_PY, PYCACHE>>)>>,
        <<<<<<"home">>, <<"ann">>, <<"proj">>, <<"src">>, INDEX_JS>>,
          File(100, NoContent)>>,
        <<<<<<"home">>, <<"ann">>, <<"proj">>, <<"src">>, SETUP_PY>>,
          File(MAX_FILE_SIZE, NoContent)>>,
        <<<<<<"home">>, <<"ann">>, <<"proj">>, <<"src">>, PYCACHE>>,
          Dir(<<APP_PY>>)>>,
        <<<<<<"home">>, <<"ann">>, <<"proj">>, <<"src">>, PYCACHE, APP_PY>>,
          File(100, NoContent)>>,
        <<<<<<"home">>, <<"ann">>, <<"proj">>, <<".", "git">>>>,
          Dir(<<INDEX_JS>>)>>,
        <<<<<<"home">>, <<"ann">>, <<"proj">>, <<".", "git">>, INDEX_JS>>,
          File(100, [NoContent EXCEPT !.ai = {"openai"}])>>,
        <<<<<<"home">>, <<"ann">>, <<"proj">>, NODE_MODULES>>,
          Dir(<<INDEX_JS>>)>>,
        <<<<<<"home">>, <<"ann">>, <<"proj">>, NODE_MODULES, INDEX_JS>>,
          File(100, [NoContent EXCEPT !.ai = {"openai"}])>>,
        <<<<<<"home">>, <<"ann">>, <<"proj">>, README_MD>>,
          File(300, NoContent)>>,
        <<<<<<"home">>, <<"ann">>, <<"proj">>, APP_PY>>,
          File(200, [NoContent EXCEPT !.ai = {"openai", "langchain"},
             !.gdpr = {"pii_fields", "consent_mechanism"},
             !.multi = {"openai", "pii_fields"}])>>,
        <<<<<<"home">>, <<"ann">>, <<"proj">>, BIG_PY>>,
          File(MAX_FILE_SIZE + 1, [NoContent EXCEPT !.ai = {"pytorch"}])>>,
        <<<<<<"home">>, <<"ann">>, <<"proj">>, REQUIREMENTS_TXT>>,
          File(50, [NoContent EXCEPT !.ai = {"openai"}, !.gdpr = {"pii_fields"},
             !.config = {"database_orm"}, !.multi = {"database_orm"}])>>,
        <<<<<<"home">>, <<"ann">>, <<"proj">>, <<"docs">>>>,
          Dir(<<PRIVACY_POLICY_MD>>)>>,
        <<<<<<"home">>, <<"ann">>, <<"proj">>, <<"docs">>, PRIVACY_POLICY_MD>>,
          File(400, [NoContent EXCEPT !.placeholders = 3])>>,
        <<<<<<"home">>, <<"ann">>, <<"proj">>, <<"lnk1">>>>,
          Link(<<<<"etc">>>>)>>}

Tree == [p \in {n[1] : n \in Nodes} |-> (CHOOSE n \in Nodes : n[1] = p)[2]]

NotFound == [ok |-> FALSE, path |-> << >>]

\* The kernel's path lookup: the components are followed one by one from
\* the directory reached so far, links are followed, ".." is the parent of
\* the directory reached.
RECURSIVE namei(_, _)
namei(cur, comps) ==
    IF cur \notin DOMAIN Tree THEN NotFound
    ELSE IF comps = << >> THEN [ok |-> TRUE, path |-> cur]
    ELSE IF Tree[cur].type # "dir" THEN NotFound
    ELSE LET c == Head(comps)
             rest == Tail(comps)
             next == Append(cur, c)
         IN  IF c = << >> \/ c = DOT THEN namei(cur, rest)
             ELSE IF c = DOTDOT
             THEN namei(IF cur = << >> THEN cur ELSE SubSeq(cur, 1, Len(cur) - 1), rest)
             ELSE IF next \notin DOMAIN Tree \/ Tree[next].type = "ghost" THEN NotFound
             ELSE IF Tree[next].type = "link" THEN namei(<< >>, Tree[next].target \o rest)
             ELSE namei(next, rest)

\* The file or directory a path string names for the fs calls that follow
\* links (existsSync, readdirSync, statSync, readFileSync).
lookup(s) ==
    IF s = << >> THEN NotFound
    ELSE namei(IF isAbsolute(s) THEN << >> ELSE CWD, split(s))

\* fs.existsSync
existsSync(s) == lookup(s).ok

\* fs.realpathSync after its path.resolve: each name is looked at in turn
\* (lstat); a link is replaced by its target and the walk starts again; a
\* missing name throws.
RECURSIVE realWalk(_, _)
realWalk(cur, rest) ==
    IF rest = << >> THEN [ok |-> TRUE, path |-> cur]
    ELSE LET base == Append(cur, Head(rest))
         IN  IF base \notin DOMAIN Tree \/ Tree[base].type = "ghost" THEN NotFound
             ELSE IF cur \in DOMAIN Tree /\ Tree[cur].type = "locked" THEN NotFound
             ELSE IF Tree[base].type = "link"
             THEN realWalk(<< >>, normalizeString(Tree[base].target \o Tail(rest),
                                                  FALSE, << >>))
             ELSE realWalk(base, Tail(rest))

\* fs.realpathSync(s): s is resolved lexically first, then walked.
realpathSync(s) == realWalk(<< >>, resolve(s))

(***************************************************************************)
(* Path Guard                                                              *)
(***************************************************************************)
BLOCKED_PATHS ==
    <<toAbs(<<<<"opt">>, <<"claude-ceo">>>>), toAbs(<<<<"etc">>>>), toAbs(<<<<"root">>>>),
      toAbs(<<<<"proc">>>>), toAbs(<<<<"sys">>>>), toAbs(<<<<"dev">>>>),
      toAbs(<<<<"run">>>>), toAbs(<<<<"boot">>>>), toAbs(<<<<"usr">>>>),
      toAbs(<<<<"bin">>>>), toAbs(<<<<"sbin">>>>), toAbs(<<<<"lib">>>>),
      toAbs(<<<<"snap">>>>), toAbs(<<<<"mnt">>>>), toAbs(<<<<"media">>>>)>>

NoError == [kind |-> "", of |-> << >>]

\* The comparison without the separator: any string beginning with the
\* entry counts as inside it.
isBlocked_NoSeparator(resolved, blocked) ==
    resolved = blocked \/ startsWith(resolved, blocked)

\* resolved === blocked || resolved.startsWith(blocked + "/")
isBlocked(resolved, blocked) ==
    resolved = blocked \/ startsWith(resolved, blocked \o <<SEP>>)

\* validatePath: { safe, error }; the error names its kind and the path or
\* denylist entry its message quotes.
validatePath(projectPath) ==
    LET r == realpathSync(projectPath)
        resolved == toAbs(r.path)
        hits == {i \in DOMAIN BLOCKED_PATHS : isBlocked(resolved, BLOCKED_PATHS[i])}
        first == CHOOSE i \in hits : \A j \in hits : i <= j
    IN  IF ~r.ok THEN [safe |-> FALSE, error |-> [kind |-> "InvalidPath", of |-> projectPath]]
        ELSE IF hits # {}
        THEN [safe |-> FALSE, error |-> [kind |-> "AccessDenied", of |-> BLOCKED_PATHS[first]]]
        ELSE [safe |-> TRUE, error |-> NoError]

\* The project paths callers pass: plain, with trailing and doubled
\* separators, with "." and "..", through links, relative, empty, missing.
ProjectPaths ==
    LET etc == toAbs(<<<<"etc">>>>)
        ann == toAbs(<<<<"home">>, <<"ann">>>>)
        proj == ann \o <<SEP, "proj">>
    IN  {BLOCKED_PATHS[i] : i \in DOMAIN BLOCKED_PATHS}
        \cup {BLOCKED_PATHS[i] \o <<SEP>> : i \in DOMAIN BLOCKED_PATHS}
        \cup {BLOCKED_PATHS[i] \o <<"x">> : i \in DOMAIN BLOCKED_PATHS}
        \cup {<<SEP>>, << >>, <<"proj">>, DOT, DOTDOT \o <<SEP>> \o DOTDOT \o <<SEP, "etc">>,
              toAbs(<<<<"opt">>>>), toAbs(<<<<"gone">>>>),
              etc \o <<SEP, SEP>>, <<SEP>> \o etc, etc \o <<"x", SEP>>,
              etc \o <<SEP, "ssh">>, etc \o <<SEP, "ssh", SEP>>,
              etc \o <<SEP>> \o DOT, etc \o <<SEP>> \o DOTDOT,
              etc \o <<SEP>> \o DOTDOT \o <<SEP, "home">>,
              etc \o <<SEP>> \o APP_PY, etc \o <<SEP, "gone">>,
              ann, proj, proj \o <<SEP>>, proj \o <<SEP>> \o APP_PY,
              proj \o <<SEP, "docs">>, proj \o <<SEP>> \o DOTDOT \o <<SEP, "odd">>,
              proj \o <<SEP, "lnk1">>, proj \o <<SEP>> \o README_MD \o <<SEP, "x">>,
              ann \o <<SEP, "odd">>, ann \o <<SEP, "solo">>, ann \o <<SEP, "frail">>,
              ann \o <<SEP, "pkg">>,
              ann \o <<SEP, "lnk1">>, ann \o <<SEP, "lnk1", SEP>>,
              ann \o <<SEP, "lnk1", SEP, "ssh">>, ann \o <<SEP, "lnk1", SEP>> \o DOTDOT,
              ann \o <<SEP, "lnk2">>, ann \o <<SEP, "lnk2", SEP>> \o DOTDOT \o <<SEP, "ssh">>,
              ann \o <<SEP, "lnk3">>, ann \o <<SEP, "lnk3", SEP>>,
              ann \o <<SEP, "lnk4">>}

(***************************************************************************)
(* Bounded walker                                                          *)
(***************************************************************************)
CODE_EXTENSIONS ==
    {<<".", "py">>, <<".", "js">>, <<".", "ts">>, <<".", "java">>, <<".", "go">>,
     <<".", "rs">>, <<".", "cpp">>, <<".", "c">>}

CONFIG_FILE_NAMES ==
    {<<"package", ".", "json">>, <<"package-lock", ".", "json">>, REQUIREMENTS_TXT,
     <<"requirements-dev", ".", "txt">>, <<"setup", ".", "py">>, <<"setup", ".", "cfg">>,
     <<"pyproject", ".", "toml">>, <<"Pipfile">>, <<"Pipfile", ".", "lock">>,
     <<"Cargo", ".", "toml">>, <<"go", ".", "mod">>, <<"Gemfile">>,
     <<"composer", ".", "json">>}

\* fs.readdirSync(s, { withFileTypes: true }): the directory reached and the
\* names in it, or a failure.
readdirSync(s) ==
    LET d == lookup(s)
    IN  IF d.ok /\ Tree[d.path].type = "dir"
        THEN [ok |-> TRUE, dir |-> d.path, entries |-> Tree[d.path].entries]
        ELSE [ok |-> FALSE, dir |-> << >>, entries |-> << >>]

\* A stat that reports every file as empty: the size test passes always.
statSync_NoSize(s) == [ok |-> lookup(s).ok, size |-> 0]

\* fs.statSync(s).size
statSync(s) ==
    LET f == lookup(s)
    IN  [ok |-> f.ok, size |-> IF f.ok THEN Tree[f.path].size ELSE 0]

\* fs.readFileSync(s, "utf-8"): what the text holds, or a failure.
readFileSync(s) ==
    LET f == lookup(s)
    IN  IF f.ok /\ Tree[f.path].type = "file" /\ ~Tree[f.path].content.denied
        THEN [ok |-> TRUE, content |-> Tree[f.path].content]
        ELSE [ok |-> FALSE, content |-> NoContent]

\* The file test of the two walkers: extension of a source file, or name of
\* a manifest.
wanted(kind, name) ==
    IF kind = "code" THEN extname(name) \in CODE_EXTENSIONS
    ELSE name \in CONFIG_FILE_NAMES

\* The loop over the entries of one directory, from entry i on; w holds the
\* queue, the results and the kinds of fs call made so far.
RECURSIVE walkEntries(_, _, _, _, _, _)
walkEntries(listing, i, current, w, maxFiles, kind) ==
    IF i > Len(listing.entries) \/ Len(w.results) >= maxFiles THEN w
    ELSE LET name == listing.entries[i]
             entry == Tree[Append(listing.dir, name)]
             fullPath == join(current, name)
             st == statSync(fullPath)
             w2 == IF startsWith(name, DOT) \/ name = NODE_MODULES \/ name = PYCACHE
                   THEN w
                   ELSE IF entry.type \in {"dir", "locked"}
                   THEN [w EXCEPT !.queue = Append(@, fullPath)]
                   ELSE IF entry.type \in {"file", "ghost"} /\ wanted(kind, name)
                   THEN [w EXCEPT !.ops = @ \cup {"statSync"},
                                  !.results = IF st.ok /\ st.size <= MAX_FILE_SIZE
                                              THEN Append(@, fullPath) ELSE @]
                   ELSE w
         IN  walkEntries(listing, i + 1, current, w2, maxFiles, kind)

\* A listing that fails ends the walk: the directories still queued are
\* never listed.
skipDirectory_EndsWalk(w) == [w EXCEPT !.queue = << >>]

\* try { entries = fs.readdirSync(...) } catch { continue; }: the walk goes
\* on with the directories still queued.
skipDirectory(w) == w

\* The loop over the queue of directories.
RECURSIVE walk(_, _, _)
walk(w, maxFiles, kind) ==
    IF w.queue = << >> \/ Len(w.results) >= maxFiles THEN w
    ELSE LET current == Head(w.queue)
             listing == readdirSync(current)
             w1 == [w EXCEPT !.queue = Tail(@), !.ops = @ \cup {"readdirSync"}]
         IN  IF ~listing.ok THEN walk(skipDirectory(w1), maxFiles, kind)
             ELSE walk(walkEntries(listing, 1, current, w1, maxFiles, kind), maxFiles, kind)

walkDir(dir, maxFiles) ==
    walk([queue |-> <<dir>>, results |-> << >>, ops |-> {}], maxFiles, "code")

walkConfigFiles(dir, maxFiles) ==
    walk([queue |-> <<dir>>, results |-> << >>, ops |-> {}], maxFiles, "config")

(***************************************************************************)
(* Detection                                                               *)
(***************************************************************************)
\* The keys of the pattern tables, in the order of their entries.
AI_MODEL_PATTERNS ==
    <<"openai", "anthropic", "huggingface", "tensorflow", "pytorch", "langchain">>

GDPR_CODE_PATTERNS ==
    <<"pii_fields", "database_queries", "cookie_operations", "user_tracking",
      "consent_mechanism", "data_deletion", "encryption_usage", "data_export",
      "ip_logging", "geolocation">>

GDPR_CONFIG_PATTERNS ==
    <<"database_orm", "analytics", "email_service", "auth_provider", "payment",
      "cookie_tracking", "cloud_storage", "encryption">>

\* The keys of a table some pattern of which matches the content.
matched(content, table) ==
    IF table = "ai" THEN content.ai
    ELSE IF table = "gdpr" THEN content.gdpr
    ELSE content.config

SeqRange(q) == {q[i] : i \in DOMAIN q}

\* The number of patterns of the key that match the content.
hits(content, table, k) ==
    IF k \notin matched(content, table) THEN 0
    ELSE IF k \in content.multi THEN 2 ELSE 1

pushes_NoBreak(content, table, k) == hits(content, table, k)

\* The inner loop over the patterns of one key: the first pattern that
\* matches pushes the key and the relative path, and the loop breaks.
pushes(content, table, k) == IF hits(content, table, k) > 0 THEN 1 ELSE 0

\* The loop over the files of a scan: acc.detected maps a key to the
\* relative paths pushed for it, acc.flagged lists the files with at least
\* one detection.
RECURSIVE detect(_, _, _, _, _)
detect(projectPath, files, tableKeys, table, acc) ==
    IF files = << >> THEN acc
    ELSE LET read == readFileSync(Head(files))
             rel == relative(projectPath, Head(files))
             found == SelectSeq(tableKeys, LAMBDA k : pushes(read.content, table, k) > 0)
             detected ==
                 [k \in (DOMAIN acc.detected) \cup SeqRange(found) |->
                     (IF k \in DOMAIN acc.detected THEN acc.detected[k] ELSE << >>)
                     \o [i \in 1..pushes(read.content, table, k) |-> rel]]
             flagged == IF found = << >> THEN acc.flagged
                        ELSE Append(acc.flagged, [file |-> rel, found |-> found])
         IN  IF ~read.ok THEN detect(projectPath, Tail(files), tableKeys, table, acc)
             ELSE detect(projectPath, Tail(files), tableKeys, table,
                         [detected |-> detected, flagged |-> flagged])

NoDetections == [detected |-> EmptyMap, flagged |-> << >>]

(***************************************************************************)
(* Tool functions.  Each gives the value it returns (result), whether it   *)
(* threw instead, and the kinds of fs call it made on the project path and *)
(* below it after the Path Guard (ops).                                    *)
(***************************************************************************)
FREE_TIER_BANNER == "Free tier: 10 scans/day"

\* addBanner
addBanner(result) == MapSet(result, "upgrade", FREE_TIER_BANNER)

Returned(result, ops) == [threw |-> FALSE, ops |-> ops, result |-> result]
Thrown(ops) == [threw |-> TRUE, ops |-> ops, result |-> EmptyMap]

\* A result holds a truthy error.
hasError(result) == "error" \in DOMAIN result /\ result.error.kind # ""

scanProject(projectPath) ==
    LET g == validatePath(projectPath)
        w == walkDir(projectPath, MAX_FILES)
        d == detect(projectPath, w.results, AI_MODEL_PATTERNS, "ai", NoDetections)
    IN  IF ~g.safe
        THEN Returned([error |-> g.error, detected_models |-> EmptyMap], {})
        ELSE IF ~existsSync(projectPath)
        THEN Returned([error |-> [kind |-> "PathDoesNotExist", of |-> projectPath],
                       detected_models |-> EmptyMap], {"existsSync"})
        ELSE Returned([files_scanned |-> Len(w.results),
                       ai_files |-> [i \in DOMAIN d.flagged |->
                                        [file |-> d.flagged[i].file,
                                         frameworks |-> d.flagged[i].found]],
                       detected_models |-> d.detected],
                      {"existsSync"} \cup w.ops
                      \cup (IF w.results = << >> THEN {} ELSE {"readFileSync"}))

\* fileExists
fileExists(projectPath, filename) ==
    \/ existsSync(join(projectPath, filename))
    \/ existsSync(join(join(projectPath, <<"docs">>), filename))

\* checkFileQuality: the first of projectPath and projectPath/docs that has
\* the file decides.
checkFileQuality(projectPath, filename) ==
    LET here == join(projectPath, filename)
        there == join(join(projectPath, <<"docs">>), filename)
        filePath == IF existsSync(here) THEN here ELSE there
        read == readFileSync(filePath)
    IN  IF ~existsSync(here) /\ ~existsSync(there)
        THEN [exists |-> FALSE, customized |-> FALSE, unfilled_placeholders |-> 0]
        ELSE IF read.ok
        THEN [exists |-> TRUE, customized |-> read.content.placeholders <= 2,
              unfilled_placeholders |-> read.content.placeholders]
        ELSE [exists |-> TRUE, customized |-> FALSE, unfilled_placeholders |-> -1]

MD(n) == <<n, ".", "md">>

\* The own keys of the two requirement tables, and the names every object
\* inherits, for which table[key] is truthy as well.
RISK_CATEGORIES == {"unacceptable", "high", "limited", "minimal"}
GDPR_REQUIREMENTS == {"controller", "processor", "minimal_processing"}
ObjectPrototype == {"constructor", "toString", "valueOf", "hasOwnProperty"}

\* A count of the items, passed or not.
passedOf_CountsAll(status) == Len(status)

\* Object.values(status).filter(Boolean).length
passedOf(status) == Cardinality({i \in DOMAIN status : status[i].ok})

\* The tenths cut off instead of rounded.
percentage_Truncates(passed, total) ==
    IF total > 0 THEN (1000 * passed) \div total ELSE 0

\* Math.round((passed / total) * 1000) / 10, in tenths of a percent.
percentage(passed, total) ==
    IF total > 0 THEN (2000 * passed + total) \div (2 * total) ELSE 0

Item(name, ok) == [name |-> name, ok |-> ok]

\* The checklist of checkCompliance, in the order its keys are set.
riskStatus(projectPath, riskCategory) ==
    LET readmeExists == existsSync(join(projectPath, README_MD))
        readme == readFileSync(join(projectPath, README_MD))
        w == walkDir(projectPath, 500)
        pyFiles == SelectSeq(w.results, LAMBDA f : endsWith(f, <<".", "py">>))
        marked == \E i \in DOMAIN pyFiles :
                      /\ readFileSync(pyFiles[i]).ok
                      /\ readFileSync(pyFiles[i]).content.aiMarker
    IN  IF riskCategory = "high"
        THEN <<Item("technical_documentation",
                    \E d \in {README_MD, MD("ARCHITECTURE"), MD("API"), <<"docs">>} :
                        existsSync(join(projectPath, d))),
               Item("risk_management", fileExists(projectPath, MD("RISK_MANAGEMENT"))),
               Item("transparency",
                    fileExists(projectPath, MD("TRANSPARENCY")) \/ readmeExists),
               Item("data_governance", fileExists(projectPath, MD("DATA_GOVERNANCE"))),
               Item("human_oversight", fileExists(projectPath, MD("HUMAN_OVERSIGHT"))),
               Item("robustness", fileExists(projectPath, MD("ROBUSTNESS")))>>
        ELSE IF riskCategory = "limited"
        THEN <<Item("transparency",
                    readmeExists \/ fileExists(projectPath, MD("TRANSPARENCY"))),
               Item("user_disclosure", readmeExists /\ readme.content.aiKeyword),
               Item("content_marking", marked)>>
        ELSE IF riskCategory = "minimal"
        THEN <<Item("basic_documentation", readmeExists)>>
        ELSE << >>

checkCompliance(projectPath, riskCategory) ==
    LET readmeExists == existsSync(join(projectPath, README_MD))
        readme == readFileSync(join(projectPath, README_MD))
        w == walkDir(projectPath, 500)
        pyFiles == SelectSeq(w.results, LAMBDA f : endsWith(f, <<".", "py">>))
        status == riskStatus(projectPath, riskCategory)
        total == Len(status)
        passed == passedOf(status)
        fields == [risk_category |-> riskCategory,
                   description |-> riskCategory,
                   requirements |-> riskCategory,
                   compliance_status |-> status,
                   compliance_score |-> <<passed, total>>,
                   compliance_percentage |-> percentage(passed, total)]
    IN  IF riskCategory \notin RISK_CATEGORIES \cup ObjectPrototype
        THEN Returned([error |-> [kind |-> "UnknownCategory", of |-> riskCategory]], {})
        ELSE IF riskCategory = "limited" /\ readmeExists /\ ~readme.ok
        THEN Thrown({"existsSync", "readFileSync"})
        ELSE Returned(IF riskCategory \in RISK_CATEGORIES THEN fields
                      ELSE MapRestrict(fields, DOMAIN fields \ {"description", "requirements"}),
                      {"existsSync"}
                      \cup (IF riskCategory = "limited"
                            THEN w.ops
                                 \cup (IF readmeExists \/ pyFiles # << >>
                                       THEN {"readFileSync"} ELSE {})
                            ELSE {}))

\* The all-passed line whatever the checklist says.
recommend_AlwaysPassed(status, riskCategory) ==
    LET failed == SelectSeq(status, LAMBDA it : ~it.ok)
    IN  [i \in DOMAIN failed |-> [kind |-> "MISSING", check |-> failed[i].name]]
        \o <<[kind |-> "ALL_PASSED", check |-> ""]>>

\* The recommendations of generateReport: one per failed item in checklist
\* order, else the all-passed line, then the line of the risk category.
recommend(status, riskCategory) ==
    LET failed == SelectSeq(status, LAMBDA it : ~it.ok)
        missing == [i \in DOMAIN failed |-> [kind |-> "MISSING", check |-> failed[i].name]]
    IN  (IF missing = << >> THEN <<[kind |-> "ALL_PASSED", check |-> ""]>> ELSE missing)
        \o (IF riskCategory = "high" THEN <<[kind |-> "WARNING", check |-> ""]>>
            ELSE IF riskCategory = "limited" THEN <<[kind |-> "INFO", check |-> ""]>>
            ELSE << >>)

\* The scan's error result handed on whole.
scanFailure_WholeScan(scan) == Returned(scan.result, scan.ops)

\* return { error: scan.error }
scanFailure(scan) == Returned([error |-> scan.result.error], scan.ops)

\* report_date is the date of the call, which the call record keeps (at).
generateReport(projectPath, riskCategory) ==
    LET scan == scanProject(projectPath)
        compliance == checkCompliance(projectPath, riskCategory)
        ops == scan.ops \cup compliance.ops
        c == compliance.result
    IN  IF hasError(scan.result) THEN scanFailure(scan)
        ELSE IF compliance.threw THEN Thrown(ops)
        ELSE IF hasError(c) THEN Returned([error |-> c.error], ops)
        ELSE Returned(
                 [report_date |-> "at",
                  project_path |-> projectPath,
                  scan_summary |->
                      [files_scanned |-> scan.result.files_scanned,
                       ai_files_detected |-> Len(scan.result.ai_files),
                       frameworks_detected |-> DOMAIN scan.result.detected_models],
                  compliance_summary |->
                      [risk_category |-> riskCategory,
                       compliance_score |-> c.compliance_score,
                       compliance_percentage |-> c.compliance_percentage],
                  detailed_findings |->
                      [detected_models |-> scan.result.detected_models,
                       compliance_checks |-> c.compliance_status,
                       requirements |-> IF "requirements" \in DOMAIN c
                                        THEN c.requirements ELSE ""],
                  recommendations |-> recommend(c.compliance_status, riskCategory)],
                 ops)

gdprScanProject(projectPath) ==
    LET g == validatePath(projectPath)
        w == walkDir(projectPath, MAX_FILES)
        d1 == detect(projectPath, w.results, GDPR_CODE_PATTERNS, "gdpr", NoDetections)
        cw == walkConfigFiles(projectPath, MAX_FILES)
        d == detect(projectPath, cw.results, GDPR_CONFIG_PATTERNS, "config", d1)
        has(k) == k \in DOMAIN d.detected
        hasPii == has("pii_fields") \/ has("database_queries")
        hasTracking == has("user_tracking")
        hasConsent == has("consent_mechanism")
        hasDeletion == has("data_deletion") \/ has("data_export")
        hasEncryption == has("encryption_usage")
        hasGeo == has("geolocation")
        riskFactors == Cardinality({i \in 1..4 :
                           <<hasPii, hasTracking, hasGeo, ~hasConsent /\ hasPii>>[i]})
    IN  IF ~g.safe
        THEN Returned([error |-> g.error, detected_patterns |-> EmptyMap], {})
        ELSE IF ~existsSync(projectPath)
        THEN Returned([error |-> [kind |-> "PathDoesNotExist", of |-> projectPath],
                       detected_patterns |-> EmptyMap], {"existsSync"})
        ELSE Returned(
                 [files_scanned |-> Len(w.results),
                  flagged_files |-> [i \in DOMAIN d.flagged |->
                                        [file |-> d.flagged[i].file,
                                         categories |-> d.flagged[i].found]],
                  detected_patterns |-> d.detected,
                  processing_summary |->
                      [processes_personal_data |-> hasPii \/ hasTracking,
                       risk_level |-> IF riskFactors >= 3 THEN "high"
                                      ELSE IF riskFactors >= 1 THEN "medium" ELSE "low",
                       positive_signals |->
                           (IF hasConsent THEN <<"consent">> ELSE << >>)
                           \o (IF hasDeletion THEN <<"deletion">> ELSE << >>)
                           \o (IF hasEncryption THEN <<"encryption">> ELSE << >>),
                       processing_role |-> IF hasPii THEN "controller"
                                           ELSE IF hasTracking THEN "processor"
                                           ELSE "minimal_processing"]],
                 {"existsSync"} \cup w.ops \cup cw.ops
                 \cup (IF w.results = << >> /\ cw.results = << >> THEN {}
                       ELSE {"readFileSync"}))

\* The checklist of gdprCheckCompliance, in the order its keys are set; dp
\* is the scan's detected_patterns.
gdprStatus(projectPath, processingRole, dp) ==
    <<Item("privacy_policy",
           fileExists(projectPath, PRIVACY_POLICY_MD)
           \/ fileExists(projectPath, MD("privacy-policy"))),
      Item("consent_mechanism", "consent_mechanism" \in DOMAIN dp),
      Item("data_subject_rights",
           "data_deletion" \in DOMAIN dp \/ "data_export" \in DOMAIN dp),
      Item("security_measures", "encryption_usage" \in DOMAIN dp),
      Item("records_of_processing", fileExists(projectPath, MD("RECORDS_OF_PROCESSING")))>>
    \o (IF processingRole = "controller"
        THEN <<Item("dpia",
                    fileExists(projectPath, MD("DPIA"))
                    \/ fileExists(projectPath, MD("DATA_PROTECTION_IMPACT_ASSESSMENT"))),
               Item("data_breach_procedure",
                    fileExists(projectPath, MD("DATA_BREACH_PROCEDURE"))),
               Item("dpa",
                    fileExists(projectPath, MD("DATA_PROCESSING_AGREEMENT"))
                    \/ fileExists(projectPath, MD("DPA")))>>
        ELSE << >>)

\* fileChecks: the checklist item and the file whose quality is looked at.
fileChecks(processingRole) ==
    <<[check |-> "privacy_policy", fname |-> PRIVACY_POLICY_MD],
      [check |-> "records_of_processing", fname |-> MD("RECORDS_OF_PROCESSING")]>>
    \o (IF processingRole = "controller"
        THEN <<[check |-> "dpia", fname |-> MD("DPIA")],
               [check |-> "data_breach_procedure", fname |-> MD("DATA_BREACH_PROCEDURE")]>>
        ELSE << >>)

gdprCheckCompliance(projectPath, processingRole) ==
    LET scan == gdprScanProject(projectPath)
        dp == scan.result.detected_patterns
        status == gdprStatus(projectPath, processingRole, dp)
        checks == fileChecks(processingRole)
        isTrue(name) == \E i \in DOMAIN status : status[i].name = name /\ status[i].ok
        looked == {i \in DOMAIN checks : isTrue(checks[i].check)}
        quality(i) == checkFileQuality(projectPath, checks[i].fname)
        noted == {i \in looked : ~quality(i).customized}
        quality_notes ==
            [n \in {checks[i].check : i \in noted} |->
                LET i == CHOOSE j \in noted : checks[j].check = n
                IN  quality(i).unfilled_placeholders]
        total == Len(status)
        passed == passedOf(status)
        fields == [regulation |-> "GDPR",
                   processing_role |-> processingRole,
                   description |-> processingRole,
                   requirements |-> processingRole,
                   compliance_status |-> status,
                   compliance_score |-> <<passed, total>>,
                   compliance_percentage |-> percentage(passed, total),
                   quality_notes |-> quality_notes,
                   scan_summary |-> IF "processing_summary" \in DOMAIN scan.result
                                    THEN scan.result.processing_summary ELSE EmptyMap]
    IN  IF processingRole \notin GDPR_REQUIREMENTS \cup ObjectPrototype
        THEN Returned([error |-> [kind |-> "UnknownCategory", of |-> processingRole]], {})
        ELSE Returned(IF processingRole \in GDPR_REQUIREMENTS THEN fields
                      ELSE MapRestrict(fields, DOMAIN fields \ {"description", "requirements"}),
                      scan.ops \cup {"existsSync"}
                      \cup (IF \E i \in looked : quality(i).exists
                            THEN {"readFileSync"} ELSE {}))

\* The templates of each role, by key of GDPR_TEMPLATES.
GDPR_TEMPLATE_MAPPING ==
    [controller |-> <<"privacy_policy", "dpia", "records_of_processing",
                      "data_breach_procedure">>,
     processor |-> <<"records_of_processing", "data_breach_procedure">>,
     minimal_processing |-> <<"privacy_policy">>]

\* An inherited name passes the guard and then names a mapping entry that
\* is no list: the loop over it throws.
gdprGenerateTemplates(processingRole) ==
    IF processingRole \notin GDPR_REQUIREMENTS \cup ObjectPrototype
    THEN Returned([error |-> [kind |-> "UnknownCategory", of |-> processingRole]], {})
    ELSE IF processingRole \notin DOMAIN GDPR_TEMPLATE_MAPPING
    THEN Thrown({})
    ELSE Returned([regulation |-> "GDPR",
                   processing_role |-> processingRole,
                   templates_count |-> Len(GDPR_TEMPLATE_MAPPING[processingRole]),
                   templates |-> GDPR_TEMPLATE_MAPPING[processingRole]], {})

\* report_date is the date of the call, which the call record keeps (at).
gdprGenerateReport(projectPath, processingRole) ==
    LET scan == gdprScanProject(projectPath)
        compliance == gdprCheckCompliance(projectPath, processingRole)
        ops == scan.ops \cup compliance.ops
        c == compliance.result
        failed == SelectSeq(c.compliance_status, LAMBDA it : ~it.ok)
        missing == [i \in DOMAIN failed |-> [kind |-> "MISSING", check |-> failed[i].name]]
    IN  IF hasError(scan.result) THEN Returned([error |-> scan.result.error], scan.ops)
        ELSE IF hasError(c) THEN Returned([error |-> c.error], ops)
        ELSE Returned(
                 [report_date |-> "at",
                  regulation |-> "GDPR",
                  project_path |-> projectPath,
                  scan_summary |->
                      [files_scanned |-> scan.result.files_scanned,
                       flagged_files |-> Len(scan.result.flagged_files),
                       categories |-> DOMAIN scan.result.detected_patterns],
                  processing_summary |-> scan.result.processing_summary,
                  compliance_summary |->
                      [processing_role |-> processingRole,
                       compliance_score |-> c.compliance_score,
                       compliance_percentage |-> c.compliance_percentage],
                  recommendations |->
                      IF missing = << >> THEN <<[kind |-> "ALL_PASSED", check |-> ""]>>
                      ELSE missing],
                 ops)

NoTool == [tool |-> "", path |-> << >>, category |-> "", at |-> 0, threw |-> FALSE,
           ops |-> {}, result |-> EmptyMap]

InitTools == lastTool = NoTool

(***************************************************************************)
(* Actions of the limiter                                                  *)
(***************************************************************************)
\* Date.now() advances.
Tick ==
    /\ ticks < MaxTicks
    /\ \E d \in TickSteps : clock' = clock + d
    /\ ticks' = ticks + 1
    /\ UNCHANGED <<toolVars, limiterVars, keyVars, gatewayVars>>

\* One call rateLimiter.check(ip); each write of the file succeeds or fails
\* as oks allows, at most MaxFaults failures in a run.
\* check() of a handler that took the record table before it was
\* suspended and uses it after.
tableAtCheck_Stale(current, atArrival) == atArrival

\* The table check() works on: this.clients as it is when check() runs;
\* atArrival is what it was when the request arrived.
tableAtCheck(current, atArrival) == current

\* rateLimiter.check(ip) run on the table given, which becomes this.clients;
\* calls is the number of tools/call messages of the request checked.
DoCheckOn(table, ip, oks, calls) ==
    \E r \in {check(table, lastCleanup, clock, ip)} :
    \E ok1 \in IF r.swept THEN oks ELSE {"written"} :
    \E ok2 \in IF r.wrote THEN oks ELSE {"written"} :
        LET \* an exception leaves cleanup(), or the admission's persist()
            raised1 == r.swept /\ persistRaises(ok1)
            raised2 == ~raised1 /\ r.wrote /\ persistRaises(ok2)
            allowed == r.allowed /\ ~raised1 /\ ~raised2
        IN  \E done \in {IF raised1 THEN [r EXCEPT !.wrote = FALSE] ELSE r} :
            \E failed \in {failedWrites(done, ok1, ok2)} :
              /\ faults + failed <= MaxFaults
              /\ disk' = diskAfterCheck(disk, done, ok1, ok2)
              /\ faults' = faults + failed
              /\ clients' = IF raised1 THEN r.sweptTable ELSE r.clients
              /\ lastCleanup' = IF raised1 THEN lastCleanup ELSE r.lastCleanup
              /\ lastCheck' =
                    [ip |-> ip, now |-> clock, allowed |-> allowed,
                     remaining |-> IF allowed THEN r.remaining ELSE 0,
                     hadRecord |-> ip \in DOMAIN table,
                     preCount |-> IF ip \in DOMAIN table THEN table[ip].count ELSE 0,
                     preResetAt |-> IF ip \in DOMAIN table THEN table[ip].reset_at ELSE 0,
                     preN |-> admitted[ip].n, preWindowEnd |-> admitted[ip].resetAt,
                     swept |-> r.swept, wrote |-> done.wrote, pre |-> table,
                     preCleanup |-> lastCleanup,
                     sweptTable |-> IF r.swept THEN r.sweptTable ELSE EmptyMap,
                     raised |-> raised1 \/ raised2,
                     failed |-> failed]
              /\ admitted' = IF allowed
                             THEN [admitted EXCEPT ![ip] = admit(admitted[ip], clock, calls)]
                             ELSE admitted
              /\ UNCHANGED startedFrom

\* check(ip) on its own: one call, one message.
DoCheck(ip, oks) == DoCheckOn(clients, ip, oks, 1)

\* check(ip) with a healthy file system.  Without a restart the file is only
\* written, never read, so the table in memory does not depend on the writes.
Check(ip) ==
    /\ DoCheck(ip, {"written"})
    /\ UNCHANGED <<toolVars, clock, ticks, keyVars, gatewayVars>>

\* The process is restarted: a new RateLimiter is constructed and loads the file.
Restart ==
    LET t == load(disk, clock) IN
    /\ clients' = t
    /\ lastCleanup' = clock
    /\ lastCheck' = NoCheck
    /\ admitted' = [i \in IPs |-> IF i \in DOMAIN t
                                  THEN [n |-> t[i].count, resetAt |-> t[i].reset_at,
                                        handed |-> t[i].count]
                                  ELSE NoWindow]
    /\ startedFrom' = [at |-> clock, file |-> disk]
    /\ UNCHANGED <<toolVars, clock, ticks, disk, faults, keyVars, gatewayVars>>

InitLimiter ==
    /\ clock = 0
    /\ ticks = 0
    /\ clients = EmptyMap
    /\ lastCleanup = 0
    /\ disk = [state |-> "missing", table |-> EmptyMap]
    /\ faults = 0
    /\ lastCheck = NoCheck
    /\ admitted = [i \in IPs |-> NoWindow]
    /\ startedFrom = [at |-> 0, file |-> disk]
    /\ InitKeys
    /\ InitGateway
    /\ InitTools

NextLimiter ==
    \/ Tick
    \/ \E ip \in IPs : Check(ip)

SpecLimiter == InitLimiter /\ [][NextLimiter]_vars

\* The limiter over restarts of the process, with writes that may fail.
MaxStorageTicks == 2

\* data/rate_limits.json as an earlier process left it: ip2 has used its
\* quota in a window that began when that process wrote the file.
LeftFile ==
    [state |-> "ok",
     table |-> [i \in {"ip2"} |-> [count |-> FREE_TIER_DAILY_LIMIT, reset_at |-> WINDOW_MS]]]

\* The clients that send requests in these runs; ip2 stays away, its record
\* is only carried by the file and the table.
StorageClients == {"ip1"}

\* new RateLimiter(): lastCleanup = Date.now(), then load().
InitStorage ==
    /\ clock = 0
    /\ ticks = 0
    /\ disk = LeftFile
    /\ clients = load(disk, clock)
    /\ lastCleanup = clock
    /\ faults = 0
    /\ lastCheck = NoCheck
    /\ admitted = [i \in IPs |-> IF i \in DOMAIN clients
                                  THEN [n |-> clients[i].count, resetAt |-> clients[i].reset_at,
                                        handed |-> clients[i].count]
                                  ELSE NoWindow]
    /\ startedFrom = [at |-> clock, file |-> disk]
    /\ InitKeys
    /\ InitGateway
    /\ InitTools

TickStorage ==
    /\ ticks < MaxStorageTicks
    /\ \E d \in TickSteps : clock' = clock + d
    /\ ticks' = ticks + 1
    /\ UNCHANGED <<toolVars, limiterVars, keyVars, gatewayVars>>

\* check(ip) where each writeFileSync may fail.
CheckStored(ip) ==
    /\ DoCheck(ip, WriteOutcomes)
    /\ UNCHANGED <<toolVars, clock, ticks, keyVars, gatewayVars>>

NextStorage ==
    \/ TickStorage
    \/ \E ip \in StorageClients : CheckStored(ip)
    \/ Restart

SpecStorage == InitStorage /\ [][NextStorage]_vars

(***************************************************************************)
(* The /mcp request handler                                                *)
(***************************************************************************)
\* A POST /mcp request of peer ip1 without X-Forwarded-For and without key.
BaseReq == [method |-> "POST", url |-> "/mcp", sid |-> 0, body |-> NoBody,
            peer |-> "ip1", xff |-> << >>, xApiKey |-> "", auth |-> NoAuth]

\* The requests of the session runs: the session header absent or one of
\* the ids a transport may generate; bodies that do not decode, that decode
\* to null, initialize, another method; and a request without body.
SessionBodies == {Garbage, One("null"), One("initialize"), One("tools/list")}

SessionRequests ==
    {[BaseReq EXCEPT !.sid = s, !.body = b] : s \in 0..MaxSessions, b \in SessionBodies}
    \cup {[BaseReq EXCEPT !.sid = s, !.method = m] :
            s \in 0..MaxSessions, m \in {"GET", "DELETE"}}

\* The requests of the admission runs: initialize, another method, and a
\* tool call without key, with the active pro key, with the deactivated key.
AdmissionKeys == {"", "kPro", "kOff"}

AdmissionRequests ==
    {[BaseReq EXCEPT !.sid = s, !.body = b] :
        s \in 0..MaxAdmSessions, b \in {One("initialize"), One("tools/list")}}
    \cup {[BaseReq EXCEPT !.sid = s, !.body = One("tools/call"), !.xApiKey = k] :
            s \in 0..MaxAdmSessions, k \in AdmissionKeys}

\* The decision of the rate-limit block for a request routed to a session:
\* whether a tools/call message is looked for and found, and whether the
\* key makes the request pro.  v is the result of verify on the key.
needsKeyCheck(req) ==
    truthy(readBody(req)) /\ findToolsCall(readBody(req).elems, 1) = "found"

\* The key test without the plan: every key that verifies makes the request pro.
isProResult_AnyPlan(v) == v.valid

\* if (keyInfo && keyInfo.plan === "pro") isPro = true
isProResult(v) == v.valid /\ v.plan = "pro"

\* The rate-limit block without the key test: every tool call is limited.
routePlan_NoProBypass(req, v) ==
    IF truthy(readBody(req)) /\ findToolsCall(readBody(req).elems, 1) = "throws" THEN "uncaught"
    ELSE IF ~needsKeyCheck(req) THEN "dispatch"
    ELSE "limit"

\* Route to existing session, the part before transport.handleRequest.
\* Gives what the handler does: "uncaught" (find threw), "limit" (the
\* limiter is asked), "dispatch" (no limiter call).
routePlan(req, v) ==
    IF truthy(readBody(req)) /\ findToolsCall(readBody(req).elems, 1) = "throws" THEN "uncaught"
    ELSE IF ~needsKeyCheck(req) THEN "dispatch"
    ELSE IF extractApiKey(req) # "" /\ isProResult(v) THEN "dispatch"
    ELSE "limit"

\* The 429 answer without its return: the handler goes on in any case.
afterLimit_NoReturn(allowed) == TRUE

\* What follows the limiter's answer: TRUE when the handler goes on to
\* transport.handleRequest, FALSE when it answers 429 and returns.
afterLimit(allowed) == allowed

\* The request reaches transport.handleRequest of transport t, which
\* answers or throws (the catch answers 500).
Dispatched(req, t, pro, checked) ==
    \E threw \in BOOLEAN :
        lastReq' = [req |-> req, path |-> "route",
                    resp |-> IF threw THEN "500" ELSE "transport",
                    to |-> t, handed |-> toolCalls(readBody(req)),
                    checked |-> checked, pro |-> pro]

\* Route to existing session, from the body's arrival to the await of
\* transport.handleRequest or the 429; table is what check() works on.
RouteOn(req, table) ==
    /\ mcpPath(req, transports) = "route"
    /\ LET t    == transports[req.sid]
           key  == extractApiKey(req)
           ask  == needsKeyCheck(req) /\ key # ""
           v    == verify(keys, loadedAt, keyFiles, clock, key)
           plan == routePlan(req, v)
       IN  /\ keys' = IF ask THEN v.keys ELSE keys
           /\ loadedAt' = IF ask THEN v.loadedAt ELSE loadedAt
           /\ lastVerify' = IF ask
                            THEN verifyRecord(key, clock, v, keys, loadedAt, keyFiles)
                            ELSE lastVerify
           /\ CASE plan = "uncaught" ->
                     /\ lastReq' = [req |-> req, path |-> "route", resp |-> "uncaught",
                                    to |-> 0, handed |-> 0, checked |-> FALSE, pro |-> FALSE]
                     /\ UNCHANGED limiterVars
                [] plan = "dispatch" ->
                     /\ Dispatched(req, t, needsKeyCheck(req), FALSE)
                     /\ UNCHANGED limiterVars
                [] plan = "limit" ->
                     /\ DoCheckOn(table, getClientIp(req), {"written"},
                                  toolCalls(readBody(req)))
                     /\ IF afterLimit(lastCheck'.allowed)
                        THEN Dispatched(req, t, FALSE, TRUE)
                        ELSE lastReq' = [req |-> req, path |-> "route", resp |-> "429",
                                         to |-> 0, handed |-> 0, checked |-> TRUE,
                                         pro |-> FALSE]
    /\ UNCHANGED <<toolVars, clock, ticks, keyFiles, transports, tr, sids, servers>>

\* The request and its body arrive in one piece.
Route(req) == RouteOn(req, clients) /\ UNCHANGED conns

\* A request for an established session arrives on connection c: the
\* handler sets its headers and awaits the body.
Arrive(c, req) ==
    /\ conns.at[c].pos = "idle"
    /\ endpoint(req) = "mcp"
    /\ conns' = [at |-> [conns.at EXCEPT ![c] = [pos |-> "reading", req |-> req]],
                 seen |-> clients]
    /\ UNCHANGED <<toolVars, clock, ticks, limiterVars, keyVars, transports, tr, sids,
                   servers, lastReq>>

\* The body is complete: the handler of connection c runs on to its next
\* await, transport.handleRequest, or to the answer it returns with.
Resume(c) ==
    /\ conns.at[c].pos = "reading"
    /\ mcpPath(conns.at[c].req, transports) = "route"
    /\ RouteOn(conns.at[c].req, tableAtCheck(clients, conns.seen))
    /\ conns' = [conns EXCEPT !.at[c] = IF lastReq'.to # 0
                                        THEN [Idle EXCEPT !.pos = "dispatching"]
                                        ELSE Idle]

\* The session was closed while the body was read: the final 400.
ResumeUnrouted(c) ==
    /\ conns.at[c].pos = "reading"
    /\ mcpPath(conns.at[c].req, transports) # "route"
    /\ conns' = [conns EXCEPT !.at[c] = Idle]
    /\ lastReq' = [req |-> conns.at[c].req,
                   path |-> mcpPath(conns.at[c].req, transports),
                   resp |-> "400", to |-> 0, handed |-> 0, checked |-> FALSE,
                   pro |-> FALSE]
    /\ UNCHANGED <<toolVars, clock, ticks, limiterVars, keyVars, transports, tr, sids,
                   servers>>

\* transport.handleRequest has settled and the handler of c returns.
Settle(c) ==
    /\ conns.at[c].pos = "dispatching"
    /\ conns' = [conns EXCEPT !.at[c] = Idle]
    /\ UNCHANGED <<toolVars, clock, ticks, limiterVars, keyVars, transports, tr, sids,
                   servers, lastReq>>

\* POST initialize without a live session: a transport and a server are
\* made, onclose is set, and the handler awaits sessionServer.connect.
InitStart(req, max) ==
    /\ mcpPath(req, transports) = "init"
    /\ Len(tr) < max
    /\ servers' = createMcpServer(servers)
    /\ tr' = Append(tr, [pos |-> "connecting", sid |-> 0, closed |-> "open",
                         server |-> servers'])
    /\ lastReq' = [req |-> req, path |-> "init", resp |-> "pending",
                   to |-> Len(tr) + 1, handed |-> 0, checked |-> FALSE, pro |-> FALSE]
    /\ UNCHANGED <<toolVars, clock, ticks, limiterVars, keyVars, transports, sids, conns>>

InitStep(t, resp) == [NoReq EXCEPT !.path = "init", !.resp = resp, !.to = t]

\* connect resolves, and the handler awaits transport.handleRequest; or
\* connect throws, and the catch answers 400.
InitConnected(t) ==
    /\ t \in DOMAIN tr
    /\ tr[t].pos = "connecting"
    /\ \E ok \in BOOLEAN :
          /\ tr' = [tr EXCEPT ![t].pos = IF ok THEN "handling" ELSE "failed"]
          /\ lastReq' = InitStep(t, IF ok THEN "pending" ELSE "400")
    /\ UNCHANGED <<toolVars, clock, ticks, limiterVars, keyVars, transports, sids, servers, conns>>

\* transport.handleRequest on the initialize message: the transport
\* generates its session id and sets the header, or answers an error
\* without one, or throws (the catch answers 400).
InitHandled(t) ==
    /\ t \in DOMAIN tr
    /\ tr[t].pos = "handling"
    /\ \E outcome \in {"accepted", "rejected", "threw"} :
          /\ sids' = IF outcome = "accepted" THEN sessionIdGenerator(sids) ELSE sids
          /\ tr' = [tr EXCEPT ![t].pos = IF outcome = "threw" THEN "failed" ELSE "handled",
                              ![t].sid = IF outcome = "accepted" THEN sids' ELSE 0]
          /\ lastReq' = InitStep(t, IF outcome = "threw" THEN "400" ELSE "pending")
    /\ UNCHANGED <<toolVars, clock, ticks, limiterVars, keyVars, transports, servers, conns>>

\* The table after the handler has resumed: if (sid) transports.set(sid, transport).
storeSession(tbl, sid, t) == IF sid # 0 THEN MapSet(tbl, sid, t) ELSE tbl

InitStore(t) ==
    /\ t \in DOMAIN tr
    /\ tr[t].pos = "handled"
    /\ transports' = storeSession(transports, tr[t].sid, t)
    /\ tr' = [tr EXCEPT ![t].pos = "done"]
    /\ lastReq' = InitStep(t, "transport")
    /\ UNCHANGED <<toolVars, clock, ticks, limiterVars, keyVars, sids, servers, conns>>

\* The table after transport.onclose: if (sid) transports.delete(sid).
dropSession(tbl, sid) == IF sid # 0 THEN MapRemove(tbl, sid) ELSE tbl

\* The transport signals closure: onclose runs, whatever the handler that
\* made the transport is doing.
Close(t) ==
    /\ t \in DOMAIN tr
    /\ tr[t].closed = "open"
    /\ transports' = dropSession(transports, tr[t].sid)
    /\ tr' = [tr EXCEPT ![t].closed = IF tr[t].pos = "done" THEN "late" ELSE "early"]
    /\ lastReq' = NoReq
    /\ UNCHANGED <<toolVars, clock, ticks, limiterVars, keyVars, sids, servers, conns>>

\* No live session and no initialize message: 400.
Reject(req) ==
    /\ mcpPath(req, transports) \in {"badjson", "nosession"}
    /\ lastReq' = [req |-> req, path |-> mcpPath(req, transports), resp |-> "400",
                   to |-> 0, handed |-> 0, checked |-> FALSE, pro |-> FALSE]
    /\ UNCHANGED <<toolVars, clock, ticks, limiterVars, keyVars, transports, tr, sids, servers, conns>>

\* GET /health: the answer reports transports.size.
Health(req) ==
    /\ endpoint(req) = "health"
    /\ lastReq' = [req |-> req, path |-> "health", resp |-> "200",
                   to |-> 0, handed |-> 0, checked |-> FALSE, pro |-> FALSE]
    /\ UNCHANGED <<toolVars, clock, ticks, limiterVars, keyVars, transports, tr, sids, servers, conns>>

\* POST /api/verify-key: JSON.parse of the body, parsed.key || "", and
\* apiKeyManager.verify; whatever throws in between is answered 400.
VerifyKeyRequest(req) ==
    /\ endpoint(req) = "verify-key"
    /\ LET parses == decoded(req.body) /\ (req.body.isArray \/ req.body.elems[1] # "null")
           apiKey == IF req.body.isArray THEN "" ELSE req.body.key
           v      == verify(keys, loadedAt, keyFiles, clock, apiKey)
       IN  /\ keys' = IF parses THEN v.keys ELSE keys
           /\ loadedAt' = IF parses THEN v.loadedAt ELSE loadedAt
           /\ lastVerify' = IF parses
                            THEN verifyRecord(apiKey, clock, v, keys, loadedAt, keyFiles)
                            ELSE lastVerify
           /\ lastReq' = [req |-> req, path |-> "verify-key",
                          resp |-> IF ~parses \/ v.threw THEN "400"
                                   ELSE IF v.valid THEN "200" ELSE "401",
                          to |-> 0, handed |-> 0, checked |-> FALSE, pro |-> FALSE]
    /\ UNCHANGED <<toolVars, clock, ticks, limiterVars, keyFiles, transports, tr, sids, servers, conns>>

\* OPTIONS, the server card, and a url that is none of the endpoints.
Plain(req) ==
    /\ endpoint(req) \in {"options", "card", "notfound"}
    /\ lastReq' = [req |-> req, path |-> endpoint(req),
                   resp |-> IF endpoint(req) = "options" THEN "204"
                            ELSE IF endpoint(req) = "card" THEN "200" ELSE "404",
                   to |-> 0, handed |-> 0, checked |-> FALSE, pro |-> FALSE]
    /\ UNCHANGED <<toolVars, clock, ticks, limiterVars, keyVars, transports, tr, sids, servers, conns>>

\* Date.now() advances by a window between two requests.
TickGateway ==
    /\ ticks < MaxGatewayTicks
    /\ clock' = clock + WINDOW_MS
    /\ ticks' = ticks + 1
    /\ lastReq' = NoReq
    /\ UNCHANGED <<toolVars, limiterVars, keyVars, transports, tr, sids, servers, conns>>

Init == InitLimiter

\* Session lifecycle: initialization, routing, closure, rejection.
NextSessions ==
    \/ \E req \in SessionRequests : Route(req)
    \/ \E req \in SessionRequests : InitStart(req, MaxSessions)
    \/ \E t \in 1..MaxSessions : InitConnected(t)
    \/ \E t \in 1..MaxSessions : InitHandled(t)
    \/ \E t \in 1..MaxSessions : InitStore(t)
    \/ \E t \in 1..MaxSessions : Close(t)
    \/ \E req \in SessionRequests : Reject(req)

SpecSessions == Init /\ [][NextSessions]_vars

\* Admission of tool calls on established sessions.
NextAdmission ==
    \/ TickGateway
    \/ \E req \in AdmissionRequests : Route(req)
    \/ \E req \in AdmissionRequests : InitStart(req, MaxAdmSessions)
    \/ \E t \in 1..MaxAdmSessions : InitConnected(t)
    \/ \E t \in 1..MaxAdmSessions : InitHandled(t)
    \/ \E t \in 1..MaxAdmSessions : InitStore(t)
    \/ \E t \in 1..MaxAdmSessions : Close(t)
    \/ \E req \in AdmissionRequests : Reject(req)

SpecAdmission == Init /\ [][NextAdmission]_vars

\* The session the interleaved handlers call, and the requests in flight
\* together: free-tier tool calls of one peer on that session.
InFlightSessions == {1}

InFlightRequests ==
    {[BaseReq EXCEPT !.sid = s, !.body = One("tools/call")] : s \in InFlightSessions}

\* Handlers of several connections interleaved at their awaits, beside the
\* initialization and closure of the session.
NextInterleaved ==
    \/ TickGateway
    \/ \E c \in 1..MaxInFlight, req \in InFlightRequests : Arrive(c, req)
    \/ \E c \in 1..MaxInFlight : Resume(c)
    \/ \E c \in 1..MaxInFlight : ResumeUnrouted(c)
    \/ \E c \in 1..MaxInFlight : Settle(c)
    \/ InitStart([BaseReq EXCEPT !.body = One("initialize")], Cardinality(InFlightSessions))
    \/ \E t \in InFlightSessions : InitConnected(t)
    \/ \E t \in InFlightSessions : InitHandled(t)
    \/ \E t \in InFlightSessions : InitStore(t)
    \/ \E t \in InFlightSessions : Close(t)

SpecInterleaved == Init /\ [][NextInterleaved]_vars

\* Tool calls sent one by one and in JSON-RPC batches, by one peer without
\* key, on an established session.
BatchRequests ==
    {[BaseReq EXCEPT !.sid = s, !.body = b] :
        s \in 0..MaxAdmSessions,
        b \in {One("initialize"), One("tools/call"),
               Batch(<<"tools/call", "tools/call">>),
               Batch(<<"tools/list", "tools/call">>)}}

NextBatches ==
    \/ TickGateway
    \/ \E req \in BatchRequests : Route(req)
    \/ \E req \in BatchRequests : InitStart(req, MaxAdmSessions)
    \/ \E t \in 1..MaxAdmSessions : InitConnected(t)
    \/ \E t \in 1..MaxAdmSessions : InitHandled(t)
    \/ \E t \in 1..MaxAdmSessions : InitStore(t)
    \/ \E t \in 1..MaxAdmSessions : Close(t)
    \/ \E req \in BatchRequests : Reject(req)

SpecBatches == Init /\ [][NextBatches]_vars

\* Tool calls of one peer (ip1) that vary the X-Forwarded-For header: no
\* header, the single value ip2, and the list "ip2, ip1".  The clock stands
\* still, so every admission falls in one window.
ForwardedHeaders == {<< >>, <<"ip2">>, <<"ip2", "ip1">>}

ForwardedRequests ==
    {[BaseReq EXCEPT !.sid = s, !.body = One("initialize")] : s \in 0..MaxAdmSessions}
    \cup {[BaseReq EXCEPT !.sid = s, !.body = One("tools/call"), !.xff = x] :
            s \in 0..MaxAdmSessions, x \in ForwardedHeaders}

NextForwarded ==
    \/ \E req \in ForwardedRequests : Route(req)
    \/ \E req \in ForwardedRequests : InitStart(req, MaxAdmSessions)
    \/ \E t \in 1..MaxAdmSessions : InitConnected(t)
    \/ \E t \in 1..MaxAdmSessions : InitHandled(t)
    \/ \E t \in 1..MaxAdmSessions : InitStore(t)
    \/ \E t \in 1..MaxAdmSessions : Close(t)
    \/ \E req \in ForwardedRequests : Reject(req)

SpecForwarded == Init /\ [][NextForwarded]_vars

\* Tool calls under every kind of key: none, the active pro key, the
\* deactivated key, an unknown key, and the active key of plan "free".
\* The clock stands still: the key files are read once, at construction.
PlanKeys == {"", "kPro", "kOff", "kBad", "kFree"}

PlanRequests ==
    {[BaseReq EXCEPT !.sid = s, !.body = One("initialize")] : s \in 0..MaxAdmSessions}
    \cup {[BaseReq EXCEPT !.sid = s, !.body = One("tools/call"), !.xApiKey = k] :
            s \in 0..MaxAdmSessions, k \in PlanKeys}

NextPlans ==
    \/ \E req \in PlanRequests : Route(req)
    \/ \E req \in PlanRequests : InitStart(req, MaxAdmSessions)
    \/ \E t \in 1..MaxAdmSessions : InitConnected(t)
    \/ \E t \in 1..MaxAdmSessions : InitHandled(t)
    \/ \E t \in 1..MaxAdmSessions : InitStore(t)
    \/ \E t \in 1..MaxAdmSessions : Close(t)
    \/ \E req \in PlanRequests : Reject(req)

SpecPlans == Init /\ [][NextPlans]_vars

\* Requests of every kind that might reach the limiter: the session header
\* absent, of a session, or of no session (MaxAdmSessions + 1 is never
\* generated); POST bodies that do not decode, initialize, another method,
\* a tool call, and a batch with a tool call; GET and DELETE without a
\* body and with the text of a tool call sent along.
QuotaBodies ==
    {Garbage, One("initialize"), One("tools/list"), One("tools/call"),
     Batch(<<"tools/list", "tools/call">>)}

QuotaRequests ==
    {[BaseReq EXCEPT !.sid = s, !.body = b] :
        s \in 0..(MaxAdmSessions + 1), b \in QuotaBodies}
    \cup {[BaseReq EXCEPT !.sid = s, !.method = m, !.body = b] :
            s \in 0..(MaxAdmSessions + 1), m \in {"GET", "DELETE"},
            b \in {NoBody, One("tools/call")}}

NextQuota ==
    \/ \E req \in QuotaRequests : Route(req)
    \/ \E req \in QuotaRequests : InitStart(req, MaxAdmSessions)
    \/ \E t \in 1..MaxAdmSessions : InitConnected(t)
    \/ \E t \in 1..MaxAdmSessions : InitHandled(t)
    \/ \E t \in 1..MaxAdmSessions : InitStore(t)
    \/ \E t \in 1..MaxAdmSessions : Close(t)
    \/ \E req \in QuotaRequests : Reject(req)

SpecQuota == Init /\ [][NextQuota]_vars

\* The requests of the endpoint runs: health checks, key verifications
\* with a body that does not decode, with an active and with a deactivated
\* key and with a tool call for a body, with and without a session header;
\* initialize and tool calls on /mcp; and requests no endpoint takes.
EndpointRequests ==
    {[BaseReq EXCEPT !.url = "/health", !.method = "GET", !.sid = s] :
        s \in 0..MaxAdmSessions}
    \cup {[BaseReq EXCEPT !.url = "/api/verify-key", !.sid = s, !.body = b] :
            s \in 0..MaxAdmSessions,
            b \in {Garbage, WithKey("kPro"), WithKey("kOff"), One("tools/call")}}
    \cup {[BaseReq EXCEPT !.sid = s, !.body = b] :
            s \in 0..MaxAdmSessions, b \in {One("initialize"), One("tools/call")}}
    \cup {[BaseReq EXCEPT !.url = "/health"],
          [BaseReq EXCEPT !.url = "/api/verify-key", !.method = "OPTIONS"]}

\* The whole request handler: the endpoints beside /mcp, and /mcp.
NextEndpoints ==
    \/ TickGateway
    \/ \E req \in EndpointRequests : Health(req)
    \/ \E req \in EndpointRequests : VerifyKeyRequest(req)
    \/ \E req \in EndpointRequests : Plain(req)
    \/ \E req \in EndpointRequests : endpoint(req) = "mcp" /\ Route(req)
    \/ \E req \in EndpointRequests :
          endpoint(req) = "mcp" /\ InitStart(req, MaxAdmSessions)
    \/ \E t \in 1..MaxAdmSessions : InitConnected(t)
    \/ \E t \in 1..MaxAdmSessions : InitHandled(t)
    \/ \E t \in 1..MaxAdmSessions : InitStore(t)
    \/ \E t \in 1..MaxAdmSessions : Close(t)
    \/ \E req \in EndpointRequests : endpoint(req) = "mcp" /\ Reject(req)

SpecEndpoints == Init /\ [][NextEndpoints]_vars

\* The requests of the session runs, and batches that hold a null beside
\* or before a message.
BoundaryRequests ==
    SessionRequests
    \cup {[BaseReq EXCEPT !.sid = s, !.body = Batch(es)] :
            s \in 0..MaxSessions,
            es \in {<<"null">>, <<"tools/list", "null">>, <<"tools/call", "null">>}}

NextBoundary ==
    \/ \E req \in BoundaryRequests : Route(req)
    \/ \E req \in BoundaryRequests : InitStart(req, MaxSessions)
    \/ \E t \in 1..MaxSessions : InitConnected(t)
    \/ \E t \in 1..MaxSessions : InitHandled(t)
    \/ \E t \in 1..MaxSessions : InitStore(t)
    \/ \E t \in 1..MaxSessions : Close(t)
    \/ \E req \in BoundaryRequests : Reject(req)

SpecBoundary == Init /\ [][NextBoundary]_vars

\* Tool calls that carry keys in X-API-Key, in Authorization, or in both:
\* no key, the active pro key, the deactivated key, an unknown key; no
\* Authorization, Bearer with the pro key or an unknown key, and the pro
\* key under the schemes "bearer" and "Basic".
HeaderKeys == {"", "kPro", "kOff", "kBad"}

HeaderAuths ==
    {NoAuth, [scheme |-> "Bearer", cred |-> "kPro"], [scheme |-> "Bearer", cred |-> "kBad"],
     [scheme |-> "bearer", cred |-> "kPro"], [scheme |-> "Basic", cred |-> "kPro"]}

HeaderRequests ==
    {[BaseReq EXCEPT !.sid = s, !.body = One("initialize")] : s \in 0..MaxAdmSessions}
    \cup {[BaseReq EXCEPT !.sid = s, !.body = One("tools/call"), !.xApiKey = k, !.auth = a] :
            s \in 0..MaxAdmSessions, k \in HeaderKeys, a \in HeaderAuths}

NextHeaders ==
    \/ \E req \in HeaderRequests : Route(req)
    \/ \E req \in HeaderRequests : InitStart(req, MaxAdmSessions)
    \/ \E t \in 1..MaxAdmSessions : InitConnected(t)
    \/ \E t \in 1..MaxAdmSessions : InitHandled(t)
    \/ \E t \in 1..MaxAdmSessions : InitStore(t)
    \/ \E t \in 1..MaxAdmSessions : Close(t)
    \/ \E req \in HeaderRequests : Reject(req)

SpecHeaders == Init /\ [][NextHeaders]_vars

(***************************************************************************)
(* The key store with files that change under it                           *)
(***************************************************************************)
MaxKeyTicks == 2

\* The clock advances by 1 ms or by exactly the reload interval.
KeyTickSteps == {1, KEY_RELOAD_MS}

\* What a key file may hold: the two deployed files; a file whose list
\* names kOff as an active key; a file with a null between two entries of
\* its list, and a property; and the files reload() cannot read.
KeyFileContents ==
    {DeployedKeyFiles[1], DeployedKeyFiles[2],
     [state |-> "ok",
      list  |-> << [NoEntry EXCEPT !.key = "kOff", !.email = "on@x", !.tier = "pro",
                                   !.active = "true"] >>,
      dict  |-> EmptyMap],
     [state |-> "ok",
      list  |-> << [NoEntry EXCEPT !.key = "kA", !.email = "a@x"],
                   [NoEntry EXCEPT !.obj = FALSE],
                   [NoEntry EXCEPT !.key = "kB", !.email = "b@x"] >>,
      dict  |-> [k \in {"kC"} |-> [NoEntry EXCEPT !.email = "c@x"]]]}
    \cup {[state |-> st, list |-> << >>, dict |-> EmptyMap] :
             st \in {"missing", "corrupt", "null", "badlist"}}

KeyInputs == {"", "kPro", "kOff", "kFree", "kA", "kB", "kC"}

TickKeys ==
    /\ ticks < MaxKeyTicks
    /\ \E d \in KeyTickSteps : clock' = clock + d
    /\ ticks' = ticks + 1
    /\ UNCHANGED <<toolVars, limiterVars, keyVars, gatewayVars>>

\* A key file is written, replaced or removed from outside the process.
Provision(i, f) ==
    /\ keyFiles' = [keyFiles EXCEPT ![i] = f]
    /\ UNCHANGED <<toolVars, clock, ticks, limiterVars, keys, loadedAt, lastVerify,
                   gatewayVars>>

\* POST /api/verify-key with the body {"key": key}: apiKeyManager.verify(key).
VerifyKey(key) ==
    LET v == verify(keys, loadedAt, keyFiles, clock, key) IN
    /\ keys' = v.keys
    /\ loadedAt' = v.loadedAt
    /\ lastVerify' = verifyRecord(key, clock, v, keys, loadedAt, keyFiles)
    /\ UNCHANGED <<toolVars, clock, ticks, limiterVars, keyFiles, gatewayVars>>

NextKeys ==
    \/ TickKeys
    \/ \E i \in 1..2, f \in KeyFileContents : Provision(i, f)
    \/ \E key \in KeyInputs : VerifyKey(key)

SpecKeys == Init /\ [][NextKeys]_vars

(***************************************************************************)
(* Tool calls                                                              *)
(***************************************************************************)
\* The risk categories and processing roles callers pass: those of the
\* tables, one that is in neither, and a name every object inherits.
RiskInputs == RISK_CATEGORIES \cup {"bogus", "constructor"}
RoleInputs == GDPR_REQUIREMENTS \cup {"bogus", "constructor"}

\* A tool handler has run r and answers addBanner(result); the handlers run
\* to completion one at a time.
Called(tool, projectPath, category, r) ==
    /\ lastTool.tool = ""
    /\ lastTool' = [tool |-> tool, path |-> projectPath, category |-> category,
                    at |-> clock,
                    threw |-> r.threw, ops |-> r.ops,
                    result |-> IF r.threw THEN r.result ELSE addBanner(r.result)]
    /\ UNCHANGED <<clock, ticks, limiterVars, keyVars, gatewayVars>>

ScanProject(project_path) ==
    Called("scan_project", project_path, "", scanProject(project_path))

CheckCompliance(project_path, risk_category) ==
    Called("check_compliance", project_path, risk_category,
           checkCompliance(project_path, risk_category))

GenerateReport(project_path, risk_category) ==
    Called("generate_report", project_path, risk_category,
           generateReport(project_path, risk_category))

GdprScanProject(project_path) ==
    Called("gdpr_scan_project", project_path, "", gdprScanProject(project_path))

GdprCheckCompliance(project_path, processing_role) ==
    Called("gdpr_check_compliance", project_path, processing_role,
           gdprCheckCompliance(project_path, processing_role))

GdprGenerateReport(project_path, processing_role) ==
    Called("gdpr_generate_report", project_path, processing_role,
           gdprGenerateReport(project_path, processing_role))

GdprGenerateTemplates(processing_role) ==
    Called("gdpr_generate_templates", << >>, processing_role,
           gdprGenerateTemplates(processing_role))

\* The answer of the handler has been serialized and handed to the session.
Answer ==
    /\ lastTool.tool # ""
    /\ lastTool' = NoTool
    /\ UNCHANGED <<clock, ticks, limiterVars, keyVars, gatewayVars>>

NextTools ==
    \/ \E p \in ProjectPaths : ScanProject(p)
    \/ \E p \in ProjectPaths, c \in RiskInputs : CheckCompliance(p, c)
    \/ \E p \in ProjectPaths, c \in RiskInputs : GenerateReport(p, c)
    \/ \E p \in ProjectPaths : GdprScanProject(p)
    \/ \E p \in ProjectPaths, r \in RoleInputs : GdprCheckCompliance(p, r)
    \/ \E p \in ProjectPaths, r \in RoleInputs : GdprGenerateReport(p, r)
    \/ \E r \in RoleInputs : GdprGenerateTemplates(r)
    \/ Answer

SpecTools == Init /\ [][NextTools]_vars

(***************************************************************************)
(* The walkers on their own                                                *)
(***************************************************************************)
MaxCap == 4

\* The caps the walkers are called with: small ones, and the one the tools use.
Caps == 0..MaxCap \cup {MAX_FILES}

\* The directories the walkers are started on: the project paths, and
\* below the project its source, hidden and unreadable directories.
WalkRoots ==
    LET proj == toAbs(<<<<"home">>, <<"ann">>, <<"proj">>>>)
    IN  ProjectPaths
        \cup {proj \o <<SEP, "src">>, proj \o <<SEP, ".", "git">>, proj \o <<SEP, "vault">>,
              proj \o <<SEP>> \o NODE_MODULES}

\* The call of a walker has returned w.
Walked(name, dir, maxFiles, w) ==
    /\ lastTool.tool = ""
    /\ lastTool' = [tool |-> name, path |-> dir, category |-> "", at |-> clock,
                    threw |-> FALSE, ops |-> w.ops,
                    result |-> [files |-> w.results, maxFiles |-> maxFiles]]
    /\ UNCHANGED <<clock, ticks, limiterVars, keyVars, gatewayVars>>

WalkDir(dir, maxFiles) == Walked("walkDir", dir, maxFiles, walkDir(dir, maxFiles))

WalkConfigFiles(dir, maxFiles) ==
    Walked("walkConfigFiles", dir, maxFiles, walkConfigFiles(dir, maxFiles))

NextWalker ==
    \/ \E dir \in WalkRoots, n \in Caps : WalkDir(dir, n)
    \/ \E dir \in WalkRoots, n \in Caps : WalkConfigFiles(dir, n)
    \/ Answer

SpecWalker == Init /\ [][NextWalker]_vars

(***************************************************************************)
(* Claims about the limiter                                                *)
(***************************************************************************)
\* Whether the last check() came after the quota of its window was used up.
QuotaUsedBefore ==
    /\ lastCheck.ip \in IPs
    /\ lastCheck.preN >= FREE_TIER_DAILY_LIMIT
    /\ lastCheck.now < lastCheck.preWindowEnd

\* C1: once 10 check() calls of an identity have been admitted in a window,
\* every further check() of that identity before the window's end is denied
\* with remaining = 0; no window ever holds an 11th admission.
C1_QuotaDenies ==
    /\ QuotaUsedBefore => (~lastCheck.allowed /\ lastCheck.remaining = 0)
    /\ \A i \in IPs : admitted[i].n <= FREE_TIER_DAILY_LIMIT

\* The 11th request arrives 1 ms before the window ends and is denied.
C1_Witness ==
    /\ QuotaUsedBefore
    /\ lastCheck.now = lastCheck.preWindowEnd - 1
    /\ ~lastCheck.allowed

\* Whether the last check() found no record, or a record whose window is over.
WindowStartCase ==
    /\ lastCheck.ip \in IPs
    /\ (~lastCheck.hadRecord \/ lastCheck.now >= lastCheck.preResetAt)

\* C2: a check() of an identity without a record, or with now >= reset_at,
\* is admitted and leaves the record count = 1, reset_at = now + 24 h,
\* whatever the count was before.
C2_WindowStart ==
    WindowStartCase =>
        /\ lastCheck.allowed
        /\ lastCheck.remaining = FREE_TIER_DAILY_LIMIT - 1
        /\ lastCheck.ip \in DOMAIN clients
        /\ clients[lastCheck.ip] = [count |-> 1, reset_at |-> lastCheck.now + WINDOW_MS]

\* An exhausted window ends exactly now (now = reset_at) and the request is admitted.
C2_Witness ==
    /\ WindowStartCase
    /\ lastCheck.hadRecord
    /\ lastCheck.preCount = FREE_TIER_DAILY_LIMIT
    /\ lastCheck.now = lastCheck.preResetAt
    /\ lastCheck.allowed

(***************************************************************************)
(* Claims about the gateway                                                *)
(***************************************************************************)
\* The last step handled a tool call on an established session.
RoutedCall ==
    /\ lastReq.path = "route"
    /\ lastReq.req.body = One("tools/call")

\* The transport the table holds for the session id of the last request.
SessionTransport == transports[lastReq.req.sid]

\* C3: on an established session the free-tier tool calls of one identity
\* are dispatched to the session while the window holds fewer than 10
\* admissions; the next one in the window is answered 429 and not
\* dispatched; the same request with the active pro key is dispatched.
C3_ScenarioC ==
    RoutedCall =>
        IF lastReq.req.xApiKey = "kPro"
        THEN lastReq.to = SessionTransport /\ lastReq.resp # "429" /\ ~lastReq.checked
        ELSE /\ lastReq.checked
             /\ lastCheck.ip = "ip1"
             /\ lastCheck.now = clock
             /\ QuotaUsedBefore => (lastReq.resp = "429" /\ lastReq.to = 0)
             /\ ~QuotaUsedBefore => (lastReq.resp # "429" /\ lastReq.to = SessionTransport)

\* The identity has been denied its 11th call in this window, and the call
\* with the pro key is dispatched.
C3_Witness ==
    /\ RoutedCall
    /\ lastReq.req.xApiKey = "kPro"
    /\ lastReq.to = SessionTransport
    /\ QuotaUsedBefore
    /\ ~lastCheck.allowed
    /\ lastCheck.now = clock
    /\ admitted["ip1"].n = FREE_TIER_DAILY_LIMIT

\* The last step asked the limiter and was denied.
Denied == lastReq.checked /\ ~lastCheck.allowed

\* C4: a tool call the limiter denies is answered 429 and no message of it
\* reaches transport.handleRequest, so no tool runs for it.
C4_DenialShortCircuits ==
    Denied => (lastReq.resp = "429" /\ lastReq.to = 0 /\ lastReq.handed = 0)

C4_Witness ==
    /\ Denied
    /\ lastReq.resp = "429"
    /\ lastReq.path = "route"

\* An initialize message: a POST whose body decodes to one object with
\* method "initialize".
IsInitialize(req) ==
    /\ req.method = "POST"
    /\ req.body.raw = "json"
    /\ ~req.body.isArray
    /\ req.body.elems = <<"initialize">>

\* The last step handled a /mcp request that names no live session and is
\* not an initialize message.  (The handlers of such requests leave the
\* table as it is, so the table after the step is the table before it.)
Unestablished ==
    /\ lastReq.req.url = "/mcp"
    /\ (lastReq.req.sid = 0 \/ lastReq.req.sid \notin DOMAIN transports)
    /\ ~IsInitialize(lastReq.req)

\* C5: a /mcp request without live session that is not an initialize message
\* is answered 400; it is not dispatched, no transport or server is made,
\* the table is unchanged, and no exception escapes the handler.
C5_InvalidSession ==
    /\ [](Unestablished => (lastReq.resp = "400" /\ lastReq.to = 0))
    /\ [][Unestablished' =>
            (transports' = transports /\ tr' = tr /\ servers' = servers /\ sids' = sids)]_vars

\* An id whose session has closed, with a body that decodes to null.
C5_Witness ==
    /\ Unestablished
    /\ lastReq.req.body = One("null")
    /\ \E t \in DOMAIN tr : tr[t].closed = "late" /\ tr[t].sid = lastReq.req.sid
    /\ lastReq.resp = "400"

\* The session ids of the transports that have signalled closure.
ClosedIds == {tr[t].sid : t \in {u \in DOMAIN tr : tr[u].closed # "open"}} \ {0}

\* What C6 says of the requests that bear a closed id: 400, or for an
\* initialize message a new transport and server.
ClosedIdUnestablished ==
    (lastReq.req.url = "/mcp" /\ lastReq.req.sid \in ClosedIds) =>
        IF IsInitialize(lastReq.req)
        THEN /\ lastReq.path = "init"
             /\ lastReq.to = Len(tr)
             /\ tr[lastReq.to].sid # lastReq.req.sid
        ELSE lastReq.resp = "400" /\ lastReq.to = 0

\* C6: once a transport has signalled closure its session id is not in the
\* live table, and a later request bearing the id is unestablished.
C6_ClosedSessionGone ==
    /\ \A s \in ClosedIds : s \notin DOMAIN transports
    /\ ClosedIdUnestablished

\* What remains of C6 outside that interleaving: the id of a transport that
\* closed after its handler had stored it is not in the table.
C6_LateClosedGone ==
    \A t \in DOMAIN tr :
        (tr[t].closed = "late" /\ tr[t].sid # 0) => tr[t].sid \notin DOMAIN transports

\* Each session of the table has its own transport and its own server.
OwnInstances ==
    /\ \A s \in DOMAIN transports :
          transports[s] \in DOMAIN tr /\ tr[transports[s]].sid = s
    /\ \A s1, s2 \in DOMAIN transports :
          s1 # s2 => /\ transports[s1] # transports[s2]
                     /\ tr[transports[s1]].server # tr[transports[s2]].server
    /\ \A t1, t2 \in DOMAIN tr : t1 # t2 => tr[t1].server # tr[t2].server

\* The step began the handling of an initialize POST.
BeganInit == lastReq.path = "init" /\ lastReq.req.url = "/mcp"

\* The step resumed an initialize handler after transport.handleRequest.
StoredInit == lastReq.path = "init" /\ lastReq.resp = "transport"

\* C7: an initialize POST that names no live session makes one new
\* transport with a server no other transport has; when its handler
\* resumes with the session id the transport has set, exactly one entry is
\* added to the table, under that id; every live id maps to its own
\* transport and server, and no transport or server serves two ids.
C7_SessionCreation ==
    /\ []OwnInstances
    /\ [][BeganInit' =>
            /\ Len(tr') = Len(tr) + 1
            /\ \A t \in DOMAIN tr : tr[t].server # tr'[Len(tr')].server
            /\ transports' = transports]_vars
    /\ [][(StoredInit' /\ tr[lastReq'.to].sid # 0) =>
            /\ tr[lastReq'.to].sid \notin DOMAIN transports
            /\ DOMAIN transports' = (DOMAIN transports) \cup {tr[lastReq'.to].sid}
            /\ transports'[tr[lastReq'.to].sid] = lastReq'.to
            /\ tr'[lastReq'.to].server = tr[lastReq'.to].server]_vars

\* Two sessions are live, the second just stored.
C7_Witness ==
    /\ StoredInit
    /\ Cardinality(DOMAIN transports) = 2
    /\ \A s \in DOMAIN transports : tr[transports[s]].closed = "open"

(***************************************************************************)
(* Claims about the Path Guard and the tool results                        *)
(***************************************************************************)
\* The tools that take a project path.
PathTools ==
    {"scan_project", "check_compliance", "generate_report",
     "gdpr_scan_project", "gdpr_check_compliance", "gdpr_generate_report"}

\* The tools whose first statement is the Path Guard, directly or through
\* the scan they begin with.
GuardedTools ==
    {"scan_project", "generate_report", "gdpr_scan_project", "gdpr_generate_report"}

\* C8: a tool called with a project path the Path Guard rejects (InvalidPath
\* or AccessDenied) makes no directory listing, existence check, stat or
\* file read on that path or below it.
C8_GuardBeforeTraversal ==
    (lastTool.tool \in PathTools /\ ~validatePath(lastTool.path).safe)
        => lastTool.ops = {}

\* What remains of C8 for the four tools that do begin with the Guard.
C8_GuardedToolsDoNotTraverse ==
    (lastTool.tool \in GuardedTools /\ ~validatePath(lastTool.path).safe)
        => lastTool.ops = {}

\* The names of the i-th denylist entry.
BlockedNames(i) == Tail(split(BLOCKED_PATHS[i]))

\* The canonical path, a list of names, is a denylist entry or lies in a
\* directory below one.
Inside(names) ==
    \E i \in DOMAIN BLOCKED_PATHS :
        /\ Len(BlockedNames(i)) <= Len(names)
        /\ SubSeq(names, 1, Len(BlockedNames(i))) = BlockedNames(i)

\* The error kind in the answer of the last call, "" when it has none.
Verdict ==
    IF "error" \in DOMAIN lastTool.result THEN lastTool.result.error.kind ELSE ""

C9_SiblingScanned ==
    /\ lastTool.tool = "scan_project"
    /\ realpathSync(lastTool.path).ok
    /\ realpathSync(lastTool.path).path # resolve(lastTool.path)
    /\ \E i \in DOMAIN BLOCKED_PATHS :
           startsWith(toAbs(realpathSync(lastTool.path).path), BLOCKED_PATHS[i])
    /\ ~Inside(realpathSync(lastTool.path).path)
    /\ "files_scanned" \in DOMAIN lastTool.result

\* A tool has returned a value that has an error field.
ErrorResult ==
    /\ lastTool.tool \in PathTools
    /\ ~lastTool.threw
    /\ "error" \in DOMAIN lastTool.result

\* C10 as stated: a tool result that contains error contains no result
\* field (the upgrade banner, which every answer carries, is not counted as
\* one).
C10_ErrorXorResults ==
    ErrorResult => DOMAIN lastTool.result \subseteq {"error", "upgrade"}

\* C10 amended: a tool result that contains error carries no findings:
\* besides error it holds the upgrade banner and, for scan_project and
\* gdpr_scan_project only, the empty detection map (detected_models,
\* detected_patterns); a result without error holds result fields.
C10_ErrorCarriesNoFindings ==
    (lastTool.tool \in PathTools /\ ~lastTool.threw) =>
        LET res == lastTool.result
            extra == (DOMAIN res) \ {"error", "upgrade"}
        IN  IF "error" \in DOMAIN res
            THEN /\ res.error.kind # ""
                 /\ "upgrade" \in DOMAIN res
                 /\ extra = IF lastTool.tool = "scan_project" THEN {"detected_models"}
                            ELSE IF lastTool.tool = "gdpr_scan_project"
                            THEN {"detected_patterns"}
                            ELSE {}
                 /\ \A f \in extra : DOMAIN res[f] = {}
            ELSE extra # {}

\* scan_project has answered a denylisted path with an error and the empty
\* detection map.
C10_Witness ==
    /\ ErrorResult
    /\ lastTool.tool = "scan_project"
    /\ lastTool.result.error.kind = "AccessDenied"
    /\ "detected_models" \in DOMAIN lastTool.result

(***************************************************************************)
(* Claims about the limiter's records and its file                         *)
(***************************************************************************)
Within(table) == \A ip \in DOMAIN table : table[ip].count \in 1..FREE_TIER_DAILY_LIMIT

\* C11: in every state of the limiter, over restarts and failing writes,
\* every record of the table in memory, and every record of the file the
\* table is loaded from, has a count from 1 to the quota.
C11_CountWithinQuota ==
    /\ Within(clients)
    /\ disk.state = "ok" => Within(disk.table)

\* A limiter constructed from the file after time has passed, holding the
\* records of two clients, both at the quota.
C11_Witness ==
    /\ startedFrom.at > 0
    /\ lastCheck = NoCheck
    /\ DOMAIN clients = IPs
    /\ \A ip \in IPs : clients[ip].count = FREE_TIER_DAILY_LIMIT

\* A step of check() that admitted the request.
AdmissionStep == lastCheck'.ip # "none" /\ lastCheck'.allowed /\ admitted' # admitted

\* A step that constructs a new limiter from the file.
RestartStep == lastCheck' = NoCheck /\ clock' = clock

\* The records of the file f that load() keeps at time now.
Surviving(f, now) ==
    IF f.state = "ok" THEN {ip \in DOMAIN f.table : f.table[ip].reset_at > now} ELSE {}

\* The client of the last check had used its quota in the file the limiter
\* was constructed from, and its window there has not ended.
ExhaustedInFile ==
    /\ lastCheck.ip \in Surviving(startedFrom.file, startedFrom.at)
    /\ startedFrom.file.table[lastCheck.ip].count >= FREE_TIER_DAILY_LIMIT
    /\ lastCheck.now < startedFrom.file.table[lastCheck.ip].reset_at

\* What a step of the limiter does to the file and to the table.
WriteThroughAndReload ==
    /\ (AdmissionStep /\ faults' = faults) =>
           (disk' = [state |-> "ok", table |-> clients'])
    /\ RestartStep =>
           (/\ DOMAIN clients' = Surviving(disk, clock)
            /\ \A ip \in DOMAIN clients' : clients'[ip] = disk.table[ip])

\* C12: an admission whose writes all succeed leaves the file equal to the
\* table in memory; a limiter constructed from the file holds exactly the
\* records of the file whose reset_at is in the future, unchanged; and a
\* client that had used its quota in that file is denied until its reset_at.
C12_SurvivesRestart ==
    /\ [](ExhaustedInFile => ~lastCheck.allowed)
    /\ [][WriteThroughAndReload]_vars

\* ip1 used its quota, the process was restarted later, and ip1 is denied.
C12_Witness ==
    /\ startedFrom.at > 0
    /\ lastCheck.ip = "ip1"
    /\ ExhaustedInFile
    /\ ~lastCheck.allowed

(***************************************************************************)
(* Claims about the API Key Store                                          *)
(***************************************************************************)
\* verify() has been called, and the state is the one it left.
Verified == lastVerify.key # "none"

\* C13: for every key, verify(key) does not throw, also when it reloads
\* from files that are missing, unparseable or hold malformed entries; it
\* returns the plan and the email of the key's record when the key is in
\* the loaded set with an active record, and the null result otherwise.
C13_Verify ==
    Verified =>
        /\ ~lastVerify.threw
        /\ lastVerify.valid <=> (lastVerify.key \in DOMAIN keys /\ keys[lastVerify.key].active)
        /\ lastVerify.valid =>
               /\ lastVerify.plan = keys[lastVerify.key].plan
               /\ lastVerify.email = keys[lastVerify.key].email
        /\ ~lastVerify.valid => lastVerify.plan = "" /\ lastVerify.email = ""

\* verify() reloaded from a first file it could not read and a second file
\* with a null in its list, and accepted the key listed before the null.
C13_Witness ==
    /\ Verified
    /\ lastVerify.reloaded
    /\ lastVerify.files[1].state # "ok"
    /\ \E j \in DOMAIN lastVerify.files[2].list : ~lastVerify.files[2].list[j].obj
    /\ lastVerify.key = "kA"
    /\ lastVerify.valid

\* What one source holds, read on its own.
Source(f) == tryFile(EmptyMap, f).m

\* The loaded set is the union by key of the sources.
C14_UnionByKey ==
    (Verified /\ lastVerify.reloaded) =>
        DOMAIN keys = DOMAIN Source(lastVerify.files[1]) \cup DOMAIN Source(lastVerify.files[2])

\* C14: the loaded set is the union by key of the sources, and a key of the
\* earlier source keeps the record of the earlier source when the later
\* source holds the key too.
C14_EarlierSourceWins ==
    (Verified /\ lastVerify.reloaded) =>
        /\ DOMAIN keys = DOMAIN Source(lastVerify.files[1]) \cup DOMAIN Source(lastVerify.files[2])
        /\ \A k \in DOMAIN Source(lastVerify.files[1]) :
               keys[k] = Source(lastVerify.files[1])[k]

\* What the code does: the later source's record replaces the earlier one.
C14_LaterSourceWins ==
    (Verified /\ lastVerify.reloaded) =>
        \A k \in DOMAIN keys :
            keys[k] = IF k \in DOMAIN Source(lastVerify.files[2])
                      THEN Source(lastVerify.files[2])[k]
                      ELSE Source(lastVerify.files[1])[k]

\* kOff is inactive in the first file and active in the second, and
\* verify("kOff") accepts it.
C14_Reactivated ==
    /\ Verified
    /\ lastVerify.reloaded
    /\ lastVerify.key = "kOff"
    /\ "kOff" \in DOMAIN Source(lastVerify.files[1])
    /\ ~Source(lastVerify.files[1])["kOff"].active
    /\ lastVerify.valid

\* C15: verify() reads the files again exactly when more than 60 s have
\* passed since the last load; a key that is active in the files is then
\* accepted; and when verify() answers, the loaded set is at most 60 s old.
C15_Staleness ==
    Verified =>
        /\ lastVerify.reloaded <=> (lastVerify.now - lastVerify.loadedBefore > KEY_RELOAD_MS)
        /\ lastVerify.reloaded =>
               /\ loadedAt = lastVerify.now
               /\ \A k \in DOMAIN reload(lastVerify.files).m :
                      (lastVerify.key = k /\ reload(lastVerify.files).m[k].active)
                          => lastVerify.valid
        /\ lastVerify.now - loadedAt <= KEY_RELOAD_MS

\* A key that the loaded set did not hold is accepted by a verify() made
\* 60 s and 1 ms after the load.
C15_Witness ==
    /\ Verified
    /\ lastVerify.key = "kA"
    /\ ~lastVerify.knownBefore
    /\ lastVerify.now - lastVerify.loadedBefore = KEY_RELOAD_MS + 1
    /\ lastVerify.valid

\* A verify() made exactly 60 s after the load answers from memory.
C15_AtTheBound ==
    /\ Verified
    /\ lastVerify.now - lastVerify.loadedBefore = KEY_RELOAD_MS
    /\ ~lastVerify.reloaded

(***************************************************************************)
(* Claims about the headers that carry the key                             *)
(***************************************************************************)
BearerPro == [scheme |-> "Bearer", cred |-> "kPro"]

\* The last tool call on an established session was not rate limited.
Bypassed == ~lastReq.checked /\ lastReq.resp # "429" /\ lastReq.to = SessionTransport

\* C16 as stated: a tool call with the active pro key in X-API-Key or in
\* Authorization: Bearer is not rate limited, whatever the other header holds.
C16_EitherHeader ==
    (RoutedCall /\ (lastReq.req.xApiKey = "kPro" \/ lastReq.req.auth = BearerPro))
        => Bypassed

\* C16: a tool call with the active pro key in X-API-Key is not rate
\* limited, whatever Authorization holds; one with the active pro key in
\* Authorization: Bearer is not rate limited when there is no X-API-Key;
\* when X-API-Key holds another value, Authorization is not read and the
\* call is rate limited.
C16_HeaderPrecedence ==
    RoutedCall =>
        /\ lastReq.req.xApiKey = "kPro" => Bypassed
        /\ (lastReq.req.xApiKey = "" /\ lastReq.req.auth = BearerPro) => Bypassed
        /\ lastReq.req.xApiKey \notin {"", "kPro"} => lastReq.checked

\* The pro key came in Authorization: Bearer alone, after the identity had
\* used its quota, and the call went to the session.
C16_Witness ==
    /\ RoutedCall
    /\ lastReq.req.xApiKey = ""
    /\ lastReq.req.auth = BearerPro
    /\ Bypassed
    /\ admitted["ip1"].n = FREE_TIER_DAILY_LIMIT

\* The pro key in Authorization: Bearer beside an X-API-Key that does not
\* verify: the limiter is asked, and denies.
C16_BearerShadowed ==
    /\ RoutedCall
    /\ lastReq.req.xApiKey = "kBad"
    /\ lastReq.req.auth = BearerPro
    /\ lastReq.resp = "429"

(***************************************************************************)
(* Claims about exceptions at the gateway                                  *)
(***************************************************************************)
\* An await of the initialize block threw: connect or handleRequest.
InitFailed ==
    /\ lastReq.path = "init"
    /\ lastReq.to \in DOMAIN tr
    /\ tr[lastReq.to].pos = "failed"

\* C17: no exception leaves the /mcp handler; one raised on the
\* established-session path or on the initialization path is answered
\* with the internal error (500); a body that does not decode, sent
\* without a session, is answered as a malformed request (400).
C17_ExceptionsConverted ==
    /\ lastReq.resp # "uncaught"
    /\ InitFailed => lastReq.resp = "500"
    /\ (lastReq.path = "badjson" /\ lastReq.req.body = Garbage) => lastReq.resp = "400"

\* What holds: an exception of transport.handleRequest on an established
\* session is answered 500, and a body that does not decode, sent without
\* a session, is answered 400.
C17_TransportFailureAnswered ==
    /\ (lastReq.path = "route" /\ lastReq.to # 0) => lastReq.resp \in {"transport", "500"}
    /\ (lastReq.path = "badjson" /\ lastReq.req.body = Garbage) => lastReq.resp = "400"

\* A batch with a null element on an established session: r.method throws
\* inside find, outside every try.
C17_FindThrows ==
    /\ lastReq.path = "route"
    /\ lastReq.req.body = Batch(<<"null">>)
    /\ lastReq.resp = "uncaught"

\* connect threw, and the answer is the 400 of the initialize block's catch.
C17_ConnectFailureIsBadRequest ==
    /\ InitFailed
    /\ lastReq.resp = "400"

(***************************************************************************)
(* Claims about the walkers                                                *)
(***************************************************************************)
WalkerReturned == lastTool.tool \in {"walkDir", "walkConfigFiles"}

WalkKind == IF lastTool.tool = "walkDir" THEN "code" ELSE "config"

\* The directory the walk started on, when there is one.
WalkRoot == lookup(lastTool.path)

Skipped(name) == startsWith(name, DOT) \/ name = NODE_MODULES \/ name = PYCACHE

\* The files of the tree below the root r with an allowed extension or a
\* manifest name and a size within the limit, under no hidden or noise
\* directory; through: the kinds of directory on the way from the root;
\* hiddenToo: whether a file with a hidden name counts.
FilesBelow(r, kind, through, hiddenToo) ==
    {p \in DOMAIN Tree :
        /\ Len(p) > Len(r)
        /\ SubSeq(p, 1, Len(r)) = r
        /\ Tree[r].type \in through
        /\ Tree[p].type = "file"
        /\ \A j \in (Len(r) + 1)..(Len(p) - 1) :
               /\ Tree[SubSeq(p, 1, j)].type \in through
               /\ ~Skipped(p[j])
        /\ hiddenToo \/ ~Skipped(p[Len(p)])
        /\ wanted(kind, p[Len(p)])
        /\ Tree[p].size <= MAX_FILE_SIZE}

\* The matching files as the claim describes them.
MatchingAsClaimed ==
    IF WalkRoot.ok THEN FilesBelow(WalkRoot.path, WalkKind, {"dir", "locked"}, TRUE) ELSE {}

\* The matching files: regular files whose own name is not hidden, reached
\* through directories that can be listed.
Matching ==
    IF WalkRoot.ok THEN FilesBelow(WalkRoot.path, WalkKind, {"dir"}, FALSE) ELSE {}

\* The files the returned paths name.
ReturnedFiles ==
    {lookup(lastTool.result.files[i]).path : i \in DOMAIN lastTool.result.files}

\* The list is within the cap, and when fewer than cap files of the set m
\* exist it holds each of them once and nothing else.
CapAndCompleteness(m) ==
    /\ Len(lastTool.result.files) <= lastTool.result.maxFiles
    /\ Cardinality(m) < lastTool.result.maxFiles =>
           /\ ReturnedFiles = m
           /\ \A i, j \in DOMAIN lastTool.result.files :
                  lastTool.result.files[i] = lastTool.result.files[j] => i = j
           /\ \A i \in DOMAIN lastTool.result.files : lookup(lastTool.result.files[i]).ok

PlainStart == \A i \in DOMAIN split(lastTool.path) : split(lastTool.path)[i] # DOTDOT

C18_CapBinds ==
    /\ WalkerReturned
    /\ lastTool.result.maxFiles > 0
    /\ Len(lastTool.result.files) = lastTool.result.maxFiles
    /\ Cardinality(Matching) > lastTool.result.maxFiles

(***************************************************************************)
(* Claims about the end-to-end scenarios                                   *)
(***************************************************************************)
\* The project of scenario A: app.py holds "import openai", requirements.txt
\* lists openai.
ProjectA == toAbs(<<<<"home">>, <<"ann">>, <<"proj">>>>)

\* C19: scan_project on a directory with a source file that imports openai
\* and a requirements.txt that lists openai reports both relative paths
\* under detected_models.openai.
C19_ScenarioA ==
    (lastTool.tool = "scan_project" /\ lastTool.path = ProjectA) =>
        /\ "detected_models" \in DOMAIN lastTool.result
        /\ "openai" \in DOMAIN lastTool.result.detected_models
        /\ {APP_PY, REQUIREMENTS_TXT} \subseteq SeqRange(lastTool.result.detected_models.openai)

\* What holds: the source file is reported, and every reported path has an
\* extension of CODE_EXTENSIONS.
C19_SourceFilesOnly ==
    (lastTool.tool = "scan_project" /\ lastTool.path = ProjectA) =>
        /\ APP_PY \in SeqRange(lastTool.result.detected_models.openai)
        /\ \A k \in DOMAIN lastTool.result.detected_models :
               \A f \in SeqRange(lastTool.result.detected_models[k]) :
                   extname(f) \in CODE_EXTENSIONS

\* The project of scenario B: README.md and nothing else.
ProjectB == toAbs(<<<<"home">>, <<"ann">>, <<"solo">>>>)

ScenarioB ==
    /\ lastTool.tool = "check_compliance"
    /\ lastTool.path = ProjectB
    /\ lastTool.category = "high"

\* The names of the checklist items that passed.
PassedItems ==
    {lastTool.result.compliance_status[i].name :
        i \in {j \in DOMAIN lastTool.result.compliance_status :
                  lastTool.result.compliance_status[j].ok}}

\* C20 as stated: technical_documentation alone passes, the score is 1/6.
C20_AsClaimed ==
    ScenarioB =>
        /\ PassedItems = {"technical_documentation"}
        /\ lastTool.result.compliance_score = <<1, 6>>

\* C20: check_compliance with category high on a project whose only file
\* is README.md passes technical_documentation and transparency and fails
\* the four other high-risk items; the score is 2/6, the percentage 33.3.
C20_ScenarioB ==
    ScenarioB =>
        /\ ~lastTool.threw
        /\ Len(lastTool.result.compliance_status) = 6
        /\ PassedItems = {"technical_documentation", "transparency"}
        /\ lastTool.result.compliance_score = <<2, 6>>
        /\ lastTool.result.compliance_percentage = 333

\* The call of scenario B has returned its checklist.
C20_Witness ==
    /\ ScenarioB
    /\ "compliance_status" \in DOMAIN lastTool.result
    /\ "transparency" \in PassedItems
    /\ Tree[<<<<"home">>, <<"ann">>, <<"solo">>>>].entries = <<README_MD>>

(***************************************************************************)
(* C21: detection attribution                                              *)
(***************************************************************************)
\* A scan has returned its findings.
ScanReturned ==
    /\ lastTool.tool \in {"scan_project", "gdpr_scan_project"}
    /\ ~lastTool.threw
    /\ "error" \notin DOMAIN lastTool.result

\* The category -> match list mapping of the result.
MatchLists ==
    IF lastTool.tool = "scan_project" THEN lastTool.result.detected_models
    ELSE lastTool.result.detected_patterns

MatchList(k) == IF k \in DOMAIN MatchLists THEN MatchLists[k] ELSE << >>

Occurrences(q, x) == Cardinality({i \in DOMAIN q : q[i] = x})

\* The passes of the scan: the walker that lists the files, and the pattern
\* table applied to what they hold.
ScanPasses ==
    IF lastTool.tool = "scan_project"
    THEN {[kind |-> "code", table |-> "ai", tableKeys |-> AI_MODEL_PATTERNS]}
    ELSE {[kind |-> "code", table |-> "gdpr", tableKeys |-> GDPR_CODE_PATTERNS],
          [kind |-> "config", table |-> "config", tableKeys |-> GDPR_CONFIG_PATTERNS]}

\* The files a pass has read.
ScannedBy(pass) ==
    LET w == IF pass.kind = "code" THEN walkDir(lastTool.path, MAX_FILES)
             ELSE walkConfigFiles(lastTool.path, MAX_FILES)
    IN  {f \in SeqRange(w.results) : readFileSync(f).ok}

\* C21: for every file a scan has read and every category of the pattern
\* table applied to it, the file's relative path is in the category's match
\* list exactly once when some pattern of the category matches the content
\* (however many do), and not at all otherwise; a match list holds nothing
\* but such paths.
C21_Attribution ==
    ScanReturned =>
        \A pass \in ScanPasses :
            \A k \in SeqRange(pass.tableKeys) :
                /\ \A f \in ScannedBy(pass) :
                       Occurrences(MatchList(k), relative(lastTool.path, f))
                         = IF k \in matched(readFileSync(f).content, pass.table)
                           THEN 1 ELSE 0
                /\ SeqRange(MatchList(k))
                     \subseteq {relative(lastTool.path, f) : f \in ScannedBy(pass)}

\* A file with several pattern hits in one category and hits in a second
\* category has been scanned, and is listed under both.
C21_Witness ==
    /\ ScanReturned
    /\ lastTool.tool = "gdpr_scan_project"
    /\ \E pass \in ScanPasses : \E f \in ScannedBy(pass) :
          /\ hits(readFileSync(f).content, pass.table, "pii_fields") > 1
          /\ hits(readFileSync(f).content, pass.table, "consent_mechanism") > 0
          /\ relative(lastTool.path, f) \in SeqRange(MatchList("pii_fields"))
          /\ relative(lastTool.path, f) \in SeqRange(MatchList("consent_mechanism"))

(***************************************************************************)
(* C22: an unknown category is reported                                    *)
(***************************************************************************)
CategoryTools ==
    {"check_compliance", "generate_report", "gdpr_check_compliance",
     "gdpr_generate_report", "gdpr_generate_templates"}

\* The closed enumeration the tool's category is drawn from.
Enumeration(tool) ==
    IF tool \in {"check_compliance", "generate_report"} THEN RISK_CATEGORIES
    ELSE GDPR_REQUIREMENTS

OutsideEnumeration ==
    /\ lastTool.tool \in CategoryTools
    /\ lastTool.category \notin Enumeration(lastTool.tool)

\* The call returned an error and neither a checklist nor templates.
ErrorOnly ==
    /\ ~lastTool.threw
    /\ hasError(lastTool.result)
    /\ {"compliance_status", "compliance_summary", "templates"}
         \cap DOMAIN lastTool.result = {}

C22_OwnNamesReported ==
    (OutsideEnumeration /\ lastTool.category \notin ObjectPrototype) =>
        /\ ErrorOnly
        /\ lastTool.result.error.kind = "UnknownCategory"
            \/ /\ lastTool.tool \in {"generate_report", "gdpr_generate_report"}
               /\ ~validatePath(lastTool.path).safe \/ ~existsSync(lastTool.path)

\* An inherited name was taken for a role and a checklist came back.
C22_InheritedNameAccepted ==
    /\ lastTool.tool = "gdpr_check_compliance"
    /\ lastTool.category \in ObjectPrototype
    /\ "compliance_status" \in DOMAIN lastTool.result
    /\ Len(lastTool.result.compliance_status) > 0

(***************************************************************************)
(* C23: compliance score bounds                                            *)
(***************************************************************************)
\* A compliance check of a category of the enumeration has returned.
ChecklistReturned ==
    /\ lastTool.tool \in {"check_compliance", "gdpr_check_compliance"}
    /\ lastTool.category \in Enumeration(lastTool.tool)
    /\ ~lastTool.threw

\* q is x / y rounded to the nearest integer, halves upwards.
IsRounded(q, x, y) == 2 * q * y - y <= 2 * x /\ 2 * x < 2 * q * y + y

\* C23: a compliance check of a category of the enumeration returns no
\* error; with total the number of checklist items and passed the number
\* of true ones, 0 <= passed <= total, compliance_score is passed/total and
\* compliance_percentage is 100*passed/total rounded to one decimal, within
\* 0..100; with no checklist item the percentage is exactly 0.
C23_ScoreBounds ==
    ChecklistReturned =>
        /\ ~hasError(lastTool.result)
        /\ LET res == lastTool.result
               status == res.compliance_status
               total == Len(status)
               passed == Cardinality({i \in DOMAIN status : status[i].ok})
           IN  /\ 0 <= passed /\ passed <= total
               /\ res.compliance_score = <<passed, total>>
               /\ res.compliance_percentage \in 0..1000
               /\ total > 0 => IsRounded(res.compliance_percentage, 1000 * passed, total)
               /\ total = 0 => res.compliance_percentage = 0

\* The tier without checklist items has been checked, on a project where
\* another tier's score does not end on a whole tenth.
C23_Witness ==
    /\ ChecklistReturned
    /\ lastTool.category = "unacceptable"
    /\ lastTool.result.compliance_score = <<0, 0>>
    /\ lastTool.path = ProjectB
    /\ checkCompliance(ProjectB, "limited").result.compliance_score = <<2, 3>>

(***************************************************************************)
(* C24: existence and quality in gdpr_check_compliance                     *)
(***************************************************************************)
GdprChecklistReturned ==
    /\ lastTool.tool = "gdpr_check_compliance"
    /\ lastTool.category \in GDPR_REQUIREMENTS
    /\ ~lastTool.threw

\* The checklist items backed by a required file, with the file names
\* accepted for each, in the order they are looked for.
BackedItems(role) ==
    {[check |-> "privacy_policy", names |-> <<PRIVACY_POLICY_MD, PRIVACY_POLICY_LC_MD>>],
     [check |-> "records_of_processing", names |-> <<MD("RECORDS_OF_PROCESSING")>>]}
    \cup (IF role = "controller"
          THEN {[check |-> "dpia",
                 names |-> <<MD("DPIA"), MD("DATA_PROTECTION_IMPACT_ASSESSMENT")>>],
                [check |-> "data_breach_procedure",
                 names |-> <<MD("DATA_BREACH_PROCEDURE")>>],
                [check |-> "dpa",
                 names |-> <<MD("DATA_PROCESSING_AGREEMENT"), MD("DPA")>>]}
          ELSE {})

\* The places the names are looked for: the project, then its docs.
Places(projectPath, names) ==
    [i \in 1..(2 * Len(names)) |->
        IF i % 2 = 1 THEN join(projectPath, names[(i + 1) \div 2])
        ELSE join(join(projectPath, <<"docs">>), names[i \div 2])]

Present(projectPath, names) ==
    SelectSeq(Places(projectPath, names), LAMBDA f : existsSync(f))

ItemOk(item) ==
    \E i \in DOMAIN lastTool.result.compliance_status :
        /\ lastTool.result.compliance_status[i].name = item
        /\ lastTool.result.compliance_status[i].ok

\* The file is a near-verbatim template, or cannot be read.
Uncustomized(f) == ~readFileSync(f).ok \/ readFileSync(f).content.placeholders > 2

\* C24: in gdpr_check_compliance an item backed by a required file is true
\* exactly when a file of one of its accepted names exists, whatever it
\* holds; quality_notes has an entry for the item exactly when the item is
\* true and the file that satisfied it holds more than 2 placeholder
\* markers or cannot be read.
C24_ExistenceAndQuality ==
    GdprChecklistReturned =>
        \A b \in BackedItems(lastTool.category) :
            LET present == Present(lastTool.path, b.names)
            IN  /\ ItemOk(b.check) = (present # << >>)
                /\ (b.check \in DOMAIN lastTool.result.quality_notes)
                     = (present # << >> /\ Uncustomized(present[1]))

\* What remains of C24: existence alone decides the item, and the note is
\* decided by the file of the first accepted name only: an item satisfied
\* by another name is noted whatever the file holds, and dpa is never noted.
C24_FirstNameGraded ==
    GdprChecklistReturned =>
        \A b \in BackedItems(lastTool.category) :
            LET first == Present(lastTool.path, <<b.names[1]>>)
            IN  /\ ItemOk(b.check) = (Present(lastTool.path, b.names) # << >>)
                /\ (b.check \in DOMAIN lastTool.result.quality_notes)
                     = /\ ItemOk(b.check)
                       /\ b.check # "dpa"
                       /\ first = << >> \/ Uncustomized(first[1])

\* A customized privacy-policy.md satisfied the item and was noted.
C24_CustomizedFileNoted ==
    /\ GdprChecklistReturned
    /\ ItemOk("privacy_policy")
    /\ ~Uncustomized(Present(lastTool.path, <<PRIVACY_POLICY_MD, PRIVACY_POLICY_LC_MD>>)[1])
    /\ "privacy_policy" \in DOMAIN lastTool.result.quality_notes

(***************************************************************************)
(* C25: recommendations follow the checklist                               *)
(***************************************************************************)
ReportReturned ==
    /\ lastTool.tool \in {"generate_report", "gdpr_generate_report"}
    /\ ~lastTool.threw
    /\ ~hasError(lastTool.result)

\* The checklist the report was made from.
ReportChecklist ==
    IF lastTool.tool = "generate_report"
    THEN checkCompliance(lastTool.path, lastTool.category).result.compliance_status
    ELSE gdprCheckCompliance(lastTool.path, lastTool.category).result.compliance_status

OfKind(kind) == SelectSeq(lastTool.result.recommendations, LAMBDA r : r.kind = kind)

\* C25: a report holds exactly one MISSING recommendation for each false
\* checklist item, in checklist order, no other MISSING one, and the
\* all-checks-passed recommendation (once) exactly when no item is false.
C25_Recommendations ==
    ReportReturned =>
        LET failed == SelectSeq(ReportChecklist, LAMBDA it : ~it.ok)
            missing == OfKind("MISSING")
        IN  /\ Len(missing) = Len(failed)
            /\ \A i \in DOMAIN failed : missing[i].check = failed[i].name
            /\ Len(OfKind("ALL_PASSED")) = IF failed = << >> THEN 1 ELSE 0

\* A report over a checklist with true and several false items.
C25_Witness ==
    /\ ReportReturned
    /\ Len(OfKind("MISSING")) >= 2
    /\ \E i \in DOMAIN ReportChecklist : ReportChecklist[i].ok
    /\ \E c \in RISK_CATEGORIES :
          /\ ~generateReport(lastTool.path, c).threw
          /\ Len(generateReport(lastTool.path, c).result.recommendations) = 1

(***************************************************************************)
(* C26: the endpoints beside /mcp leave limiter and sessions alone         *)
(***************************************************************************)
\* The step handled GET /health or POST /api/verify-key.
EndpointHandled ==
    \/ lastReq'.req.url = "/health" /\ lastReq'.req.method = "GET"
    \/ lastReq'.req.url = "/api/verify-key" /\ lastReq'.req.method = "POST"

\* C26: handling GET /health or POST /api/verify-key, whatever the body and
\* the key, changes no rate-limit record, in memory or in the file, does not
\* call check(), and leaves the session table and the transports as they
\* were.
C26_EndpointsFrame ==
    [][EndpointHandled =>
          /\ UNCHANGED <<clients, lastCleanup, disk, lastCheck, admitted>>
          /\ UNCHANGED <<transports, tr, sids, servers>>
          /\ ~lastReq'.checked]_vars

\* A key was verified while a client had a record and a session was live.
C26_Witness ==
    /\ lastReq.path = "verify-key"
    /\ lastReq.resp = "200"
    /\ lastReq.req.sid \in DOMAIN transports
    /\ DOMAIN clients # {}

(***************************************************************************)
(* C27: admission under interleaved handlers                               *)
(***************************************************************************)
\* Every entry of the session table is whole: a generated id, the
\* transport that generated it, its initialization finished; no transport
\* is entered twice.
WholeEntries ==
    /\ \A sid \in DOMAIN transports :
          /\ sid # 0
          /\ transports[sid] \in DOMAIN tr
          /\ tr[transports[sid]].sid = sid
          /\ tr[transports[sid]].pos = "done"
    /\ \A s1, s2 \in DOMAIN transports : transports[s1] = transports[s2] => s1 = s2

\* C27: with the handlers of several connections of one client identity in
\* flight and interleaved at their awaits, no window holds more than 10
\* admissions, the count of every record is the number of admissions of
\* its window, and every entry of the session table is whole and single.
C27_AtomicAdmission ==
    /\ \A i \in IPs : admitted[i].n <= FREE_TIER_DAILY_LIMIT
    /\ \A i \in DOMAIN clients :
          /\ clients[i].count = admitted[i].n
          /\ clients[i].reset_at = admitted[i].resetAt
    /\ WholeEntries

\* A handler is suspended on its body while the handler of another
\* connection, arrived after it, has used up the quota the first one saw
\* open.
C27_Witness ==
    /\ \E c \in 1..MaxInFlight : conns.at[c].pos = "reading"
    /\ "ip1" \in DOMAIN conns.seen
    /\ conns.seen["ip1"].count < FREE_TIER_DAILY_LIMIT
    /\ "ip1" \in DOMAIN clients
    /\ clients["ip1"].count = FREE_TIER_DAILY_LIMIT
    /\ clients["ip1"].reset_at = conns.seen["ip1"].reset_at
    /\ WholeEntries /\ transports # EmptyMap

(***************************************************************************)
(* C28: no closed session stays registered                                 *)
(***************************************************************************)
\* Every transport made has signalled closure and no initialize handler is
\* still on its way.
AllClosed ==
    /\ tr # << >>
    /\ \A t \in DOMAIN tr : tr[t].closed # "open" /\ tr[t].pos \in {"done", "failed"}

\* C28: the transport of every id in the live session table has not
\* signalled closure, whenever the closure came, and once every transport
\* made has closed and every initialize handler has returned the table is
\* empty.
C28_NoClosedSessionRegistered ==
    /\ \A sid \in DOMAIN transports : tr[transports[sid]].closed = "open"
    /\ AllClosed => transports = EmptyMap

\* The transport closed before its initialize handler stored it, and the
\* handler has stored it since.
C28_EarlyClosedRegistered ==
    \E sid \in DOMAIN transports :
        /\ tr[transports[sid]].closed = "early"
        /\ tr[transports[sid]].pos = "done"

(***************************************************************************)
(* C29: the quota and the tool invocations dispatched                      *)
(***************************************************************************)
\* C29: for an identity without pro key, the tools/call messages handed to
\* session transports within one window, each message of a batch counted,
\* are never more than 10.
C29_QuotaBoundsInvocations ==
    \A i \in IPs : admitted[i].handed <= FREE_TIER_DAILY_LIMIT

\* What remains of C29: the requests that hold a tools/call message and
\* are handed on are never more than 10 in a window.
C29_QuotaBoundsRequests ==
    \A i \in IPs : admitted[i].n <= FREE_TIER_DAILY_LIMIT /\ admitted[i].n <= admitted[i].handed

\* A batch of two tool calls was admitted as one request.
C29_BatchCountedOnce ==
    /\ lastReq.checked /\ lastReq.to # 0
    /\ lastReq.handed = 2
    /\ admitted["ip1"].n = 1 /\ admitted["ip1"].handed = 2


(***************************************************************************)
(* C30: the quota is per peer address whatever headers the client sends    *)
(***************************************************************************)
\* Every request of SpecForwarded comes from the peer ip1 and the clock
\* stands still: the admissions of that peer in the window are the
\* admissions under every record its requests were counted against.
PeerAdmissions == admitted["ip1"].n + admitted["ip2"].n

\* C30: free-tier tool calls arriving from one peer address are admitted
\* at most FREE_TIER_DAILY_LIMIT times in one window, whatever
\* X-Forwarded-For values they carry.
C30_QuotaPerPeer == PeerAdmissions <= FREE_TIER_DAILY_LIMIT

\* What the code keeps: the record a request is counted against is the one
\* named by its first X-Forwarded-For value, the peer address only when the
\* header is absent.
C30_HeaderChoosesRecord ==
    lastReq.checked =>
        /\ lastCheck.ip = getClientIp(lastReq.req)
        /\ (lastReq.req.xff # << >> => lastCheck.ip = lastReq.req.xff[1])

\* A tool call of peer ip1 is admitted under the record of ip2 after the
\* record of ip1 has used up its quota.
C30_AdmittedUnderForgedAddress ==
    /\ lastReq.checked /\ lastReq.to # 0
    /\ lastReq.req.peer = "ip1" /\ lastCheck.ip = "ip2"
    /\ admitted["ip1"].n = FREE_TIER_DAILY_LIMIT


(***************************************************************************)
(* C31: window anchoring                                                   *)
(***************************************************************************)
\* The last check() found a record of its client whose window was open.
InWindow == /\ lastCheck.ip # "none" /\ lastCheck.hadRecord
            /\ lastCheck.now < lastCheck.preResetAt

\* The last check() was denied.
CheckDenied == lastCheck.ip # "none" /\ ~lastCheck.allowed

\* The record of the client of the last check() as that call found it.
RecordBefore == [count |-> lastCheck.preCount, reset_at |-> lastCheck.preResetAt]

\* C31: a check() inside a window leaves reset_at as it was and never
\* lowers count; a denied check() leaves the record of its client as it was
\* and its admission branch writes nothing: the one write a denied check()
\* can make is that of the sweep it ran first.
C31_WindowAnchoring ==
    /\ InWindow =>
          /\ lastCheck.ip \in DOMAIN clients
          /\ clients[lastCheck.ip].reset_at = lastCheck.preResetAt
          /\ clients[lastCheck.ip].count >= lastCheck.preCount
    /\ CheckDenied =>
          /\ InWindow
          /\ clients[lastCheck.ip] = RecordBefore
          /\ ~lastCheck.wrote

\* C31 as stated: a denied check() writes nothing to storage at all.
C31_DeniedWritesNothing == CheckDenied => ~lastCheck.wrote /\ ~lastCheck.swept

\* A check() late in a window was denied, left the record of its client as
\* it was, and ran the sweep first, which wrote the table.
C31_Witness ==
    /\ CheckDenied /\ lastCheck.swept
    /\ lastCheck.now > lastCheck.preResetAt - WINDOW_MS
    /\ clients[lastCheck.ip] = RecordBefore


(***************************************************************************)
(* C32: pro requests do not consume free quota                             *)
(***************************************************************************)
\* The step handles a tool call on an established session whose key made
\* it pro.  (A step that handles no request leaves lastReq and the limiter
\* as they are.)
ProCallStep == /\ lastReq'.path = "route"
               /\ lastReq'.req.body = One("tools/call")
               /\ lastReq'.pro

\* What check() gives on the table the last check() found.
LastCheckAgain ==
    check(lastCheck.pre, lastCheck.preCleanup, lastCheck.now, lastCheck.ip)

\* Whether the key of the last request is that of an active record of plan pro.
HasProKey == LET k == extractApiKey(lastReq.req)
             IN  k \in DOMAIN keys /\ keys[k].active /\ keys[k].plan = "pro"

\* The last tool call was limited as a call without key is: check() ran
\* once on this.clients for the identity of the request, its table is the
\* table now, and the call was dispatched exactly when check() allowed it.
LimitedAsKeyless ==
    /\ lastReq.checked /\ ~lastReq.pro
    /\ lastCheck.ip = getClientIp(lastReq.req)
    /\ lastCheck.now = clock
    /\ clients = LastCheckAgain.clients
    /\ lastCheck.allowed = LastCheckAgain.allowed
    /\ (lastReq.resp = "429") = ~lastCheck.allowed
    /\ (lastReq.to # 0) = lastCheck.allowed

\* C32: a tool call whose key verifies to an active record of plan pro
\* leaves the limiter's table, its file and its history as they were; a
\* tool call with any other key, or none, is limited as a call without key.
C32_ProBypassFrame ==
    /\ [](RoutedCall => IF HasProKey THEN lastReq.pro /\ ~lastReq.checked
                                      ELSE LimitedAsKeyless)
    /\ [][ProCallStep => UNCHANGED limiterVars]_vars

\* A call with the pro key is dispatched while the record of its identity
\* stands at half the quota, and the file holds the same table.
C32_Witness ==
    /\ RoutedCall /\ HasProKey /\ lastReq.pro /\ lastReq.to = SessionTransport
    /\ "ip1" \in DOMAIN clients
    /\ 2 * clients["ip1"].count = FREE_TIER_DAILY_LIMIT
    /\ disk.table = clients


(***************************************************************************)
(* C33: only tool calls on an established session consume quota            *)
(***************************************************************************)
\* The step handles a POST of a live session whose body decodes and holds
\* a tools/call message.
ToolCallStep ==
    /\ lastReq'.path = "route"
    /\ lastReq'.req.method = "POST"
    /\ lastReq'.req.sid \in DOMAIN transports
    /\ decoded(lastReq'.req.body)
    /\ toolCalls(lastReq'.req.body) > 0

\* C33: a step that calls check(), or changes the record table, the time
\* of the last sweep, the file or the count of admissions, handles a POST
\* that bears the id of a live session and whose body holds a tools/call
\* message; every other request leaves all of them as they were.
C33_OnlyToolCallsConsume ==
    [][(lastCheck' # lastCheck \/ clients' # clients \/ lastCleanup' # lastCleanup
        \/ disk' # disk \/ admitted' # admitted) => ToolCallStep]_vars

\* A GET of a live session that carried the text of a tool call was handed
\* to the transport without a check(), and the record of its peer stands
\* where the tool calls before it left it.
C33_Witness ==
    /\ lastReq.path = "route" /\ lastReq.req.method = "GET"
    /\ lastReq.req.body = One("tools/call")
    /\ lastReq.to # 0 /\ ~lastReq.checked /\ lastReq.handed = 0
    /\ "ip1" \in DOMAIN clients /\ clients["ip1"].count = 2
    /\ lastCheck.ip = "ip1"


(***************************************************************************)
(* C34: client records are independent                                     *)
(***************************************************************************)
\* The identities other than the client of the last check() that had a
\* record when it ran.
Others == DOMAIN lastCheck.pre \ {lastCheck.ip}

\* Whether the record the last check() found for b had expired by then.
ExpiredAtCheck(b) == lastCheck.now >= lastCheck.pre[b].reset_at

\* C34: check(a) gives no other identity a record, leaves every unexpired
\* record of another identity as it was, and an expired record of another
\* identity is either left as it was or removed by the sweep of that call.
C34_RecordsIndependent ==
    lastCheck.ip # "none" =>
        /\ DOMAIN clients \subseteq DOMAIN lastCheck.pre \cup {lastCheck.ip}
        /\ \A b \in Others :
              IF b \in DOMAIN clients THEN clients[b] = lastCheck.pre[b]
              ELSE ExpiredAtCheck(b) /\ lastCheck.swept

\* check(ip1) ran the sweep and counted its request, and the unexpired
\* record of ip2, part way through its quota, is as it was.
C34_Witness ==
    /\ lastCheck.ip = "ip1" /\ lastCheck.swept /\ lastCheck.allowed
    /\ lastCheck.hadRecord /\ clients["ip1"] # lastCheck.pre["ip1"]
    /\ "ip2" \in Others /\ ~ExpiredAtCheck("ip2")
    /\ "ip2" \in DOMAIN clients /\ clients["ip2"].count > 1


(***************************************************************************)
(* C35: the lazy sweep                                                     *)
(***************************************************************************)
\* The records an expired-record sweep at the time of the last check()
\* keeps of the table that call found.
Unexpired == {b \in DOMAIN lastCheck.pre : ~ExpiredAtCheck(b)}

\* The record of the client of the last check() was there and unexpired.
ClientInWindow == lastCheck.ip \in Unexpired

\* C35: check() runs the sweep exactly when more than CLEANUP_GAP_MS have
\* passed since lastCleanup (the previous sweep, or construction) and then
\* sets lastCleanup to now; the table the sweep hands to persist() is the
\* table found less exactly the expired records, without the effect of
\* the admission, which is decided on that table; a call that does not
\* sweep removes nothing.
C35_LazySweep ==
    lastCheck.ip # "none" =>
        /\ lastCheck.swept = (lastCheck.now - lastCheck.preCleanup > CLEANUP_GAP_MS)
        /\ IF lastCheck.swept
           THEN /\ lastCleanup = lastCheck.now
                /\ lastCheck.sweptTable = MapRestrict(lastCheck.pre, Unexpired)
                /\ DOMAIN clients = Unexpired \cup {lastCheck.ip}
                /\ \A b \in Unexpired \ {lastCheck.ip} : clients[b] = lastCheck.pre[b]
                /\ ~ClientInWindow =>
                      clients[lastCheck.ip] =
                          [count |-> 1, reset_at |-> lastCheck.now + WINDOW_MS]
           ELSE /\ lastCleanup = lastCheck.preCleanup
                /\ DOMAIN clients = DOMAIN lastCheck.pre \cup {lastCheck.ip}

\* A sweep removed the expired record of ip2 and kept the unexpired record
\* of ip1, whose call it was; and the time since the sweep before was
\* more than the gap.
C35_Witness ==
    /\ lastCheck.ip = "ip1" /\ lastCheck.swept /\ ClientInWindow
    /\ "ip2" \in DOMAIN lastCheck.pre /\ ExpiredAtCheck("ip2")
    /\ "ip2" \notin DOMAIN clients
    /\ lastCheck.preCleanup > 0

\* A check() exactly one hour after the sweep before it did not sweep.
C35_AtTheHourNoSweep ==
    /\ lastCheck.ip # "none" /\ ~lastCheck.swept
    /\ lastCheck.now - lastCheck.preCleanup = CLEANUP_GAP_MS


(***************************************************************************)
(* C36: persistence faults do not affect admission                         *)
(***************************************************************************)
\* C36: whatever the writes of the file do, no exception leaves check(),
\* and its result, the record table and lastCleanup after it are what
\* check() computes from the table it found; a limiter constructed from a
\* missing or unparseable file starts with an empty table.
C36_FaultsDoNotAffectAdmission ==
    /\ lastCheck.ip # "none" =>
          /\ ~lastCheck.raised
          /\ clients = LastCheckAgain.clients
          /\ lastCleanup = LastCheckAgain.lastCleanup
          /\ lastCheck.allowed = LastCheckAgain.allowed
          /\ lastCheck.remaining = LastCheckAgain.remaining
    /\ (lastCheck = NoCheck /\ startedFrom.file.state # "ok") => clients = EmptyMap

\* A write of check() failed, the call was allowed and counted in memory,
\* and the file does not hold the table.
C36_Witness ==
    /\ lastCheck.ip # "none" /\ lastCheck.failed > 0
    /\ lastCheck.allowed /\ lastCheck.hadRecord
    /\ clients[lastCheck.ip].count = lastCheck.preCount + 1
    /\ (disk.state # "ok" \/ disk.table # clients)

\* A limiter was constructed from a file a torn write had left unparseable.
C36_StartedFromTornFile ==
    /\ startedFrom.file.state = "corrupt" /\ startedFrom.at > 0
    /\ lastCheck = NoCheck /\ clients = EmptyMap


(***************************************************************************)
(* C37: the key set is superseded wholesale on reload                      *)
(***************************************************************************)
\* The keys a file names: the entries of its list that are objects with a
\* key, and its properties whose values are objects.
NamedIn(f) ==
    IF f.state # "ok" THEN {}
    ELSE {f.list[i].key : i \in {j \in DOMAIN f.list : f.list[j].obj /\ f.list[j].key # ""}}
         \cup {k \in DOMAIN f.dict : f.dict[k].obj}

\* Whether the reading of a file goes through without an exception.
ReadsThrough(f) == f.state = "ok" /\ \A i \in DOMAIN f.list : f.list[i].obj

\* The files the last verify() read when it reloaded.
FilesRead == {lastVerify.files[i] : i \in DOMAIN lastVerify.files}

C37_AllUnreadable ==
    /\ Verified /\ lastVerify.reloaded /\ lastVerify.knownBefore
    /\ \A f \in FilesRead : f.state # "ok"
    /\ keys = EmptyMap


(***************************************************************************)
(* C38: per-file and per-directory faults are absorbed                     *)
(***************************************************************************)
\* /home/ann/frail: a source file deleted after it was listed, a source
\* file and a manifest that may not be read, a directory that may not be
\* listed, and after them a directory with a source file and a manifest.
FrailProject == toAbs(<<<<"home">>, <<"ann">>, <<"frail">>>>)

\* The last call is a scan of a path the Path Guard passes and that exists.
ScanOfProject ==
    /\ lastTool.tool \in {"scan_project", "gdpr_scan_project"}
    /\ validatePath(lastTool.path).safe
    /\ existsSync(lastTool.path)

\* The files of the tree that a pass can list, stat and read.
Sound(pass) ==
    {p \in FilesBelow(lookup(lastTool.path).path, pass.kind, {"dir"}, FALSE) :
        ~Tree[p].content.denied}

\* The files the match list of k names.
ListedFor(k) ==
    {lookup(join(lastTool.path, MatchList(k)[i])).path : i \in DOMAIN MatchList(k)}

\* C38: a scan of an existing project returns a result, never an error
\* result and never an exception, whatever directories below it cannot be
\* listed and whatever files cannot be stat'ed or read; and the result
\* holds the detections of every file that can be listed, stat'ed and read.
C38_FaultsAbsorbed ==
    ScanOfProject =>
        /\ ~lastTool.threw
        /\ "error" \notin DOMAIN lastTool.result
        /\ PlainStart =>
              \A pass \in ScanPasses : \A p \in Sound(pass) :
                  \A k \in Tree[p].content[pass.table] : p \in ListedFor(k)

\* The scan of the frail project counts the two source files it could
\* stat, reports the detection in the file that lies behind the deleted
\* file, the unreadable file and the unlistable directory, and nothing
\* from the file it could not read.
C38_Witness ==
    /\ lastTool.tool = "scan_project" /\ lastTool.path = FrailProject
    /\ ~lastTool.threw /\ "error" \notin DOMAIN lastTool.result
    /\ lastTool.result.files_scanned = 2
    /\ DOMAIN lastTool.result.detected_models = {"anthropic"}
    /\ Len(lastTool.result.ai_files) = 1


(***************************************************************************)
(* C39: the per-file lists name each file once                             *)
(***************************************************************************)
\* /home/ann/pkg: one file, setup.py, a source file by its extension and a
\* manifest by its name, whose text matches a pattern of each GDPR table.
PackageProject == toAbs(<<<<"home">>, <<"ann">>, <<"pkg">>>>)

\* The per-file list of the result: ai_files or flagged_files.
PerFile ==
    IF lastTool.tool = "scan_project" THEN lastTool.result.ai_files
    ELSE lastTool.result.flagged_files

EntriesOf(file) == {i \in DOMAIN PerFile : PerFile[i].file = file}

\* C39: in the result of scan_project and of gdpr_scan_project every
\* relative path is the file of at most one entry of the per-file list.
C39_EachFileOnce ==
    ScanReturned => \A i \in DOMAIN PerFile : EntriesOf(PerFile[i].file) = {i}

\* What the code keeps: ai_files names each file once, and flagged_files
\* names a file at most once for the source walk and once for the
\* manifest walk.
C39_OncePerWalk ==
    ScanReturned =>
        \A i \in DOMAIN PerFile :
            Cardinality(EntriesOf(PerFile[i].file))
                <= (IF lastTool.tool = "scan_project" THEN 1 ELSE 2)

\* gdpr_scan_project lists setup.py twice, with the categories of the
\* source table in one entry and those of the manifest table in the other.
C39_SetupPyTwice ==
    /\ lastTool.tool = "gdpr_scan_project" /\ lastTool.path = PackageProject
    /\ ScanReturned
    /\ Len(PerFile) = 2
    /\ PerFile[1].file = PerFile[2].file
    /\ PerFile[1].categories # PerFile[2].categories

====
